---------------------------- MODULE Spec2Model ----------------------------
(***************************************************************************)
(* Field detection and matching engine of Form_Filler.                     *)
(*                                                                         *)
(*   src/src/screen_analyzer.py   ScreenAnalyzer (detector, deduplicator)  *)
(*   src/src/field_matcher.py     FieldMatcher (pattern and AI matching)   *)
(*   src/src/form_filler.py       FormFiller.fill_screen_form              *)
(*                                                                         *)
(* Numbers.  A confidence is a Python float.  It is written here as an     *)
(* integer number of millionths (0.7 is 700000).  A float sum that IEEE-754*)
(* rounds just below its decimal value (0.6 + 0.3 is 0.8999999999999999)   *)
(* is written one millionth below that value (899999), so every comparison *)
(* between two such floats, and between one of them and a literal of the   *)
(* code, has the outcome it has in Python.                                 *)
(*                                                                         *)
(* Text.  Labels, regular expressions and service responses are strings;   *)
(* they are taken apart character by character with Len, SubSeq and \o.    *)
(***************************************************************************)
EXTENDS Integers, Sequences, FiniteSets, TLC

(***************************************************************************)
(* Bounds of the model.                                                    *)
(***************************************************************************)
\* Longest candidate sequence handed to _remove_duplicates.
MaxCandidates == 3

\* Longest field list handed to match_fields.
MaxDetected == 2

\* Most contours found in one frame.
MaxContours == 2

\* Most calls made on one ScreenAnalyzer.
MaxCalls == 3

(***************************************************************************)
(* State.                                                                  *)
(***************************************************************************)
VARIABLES
    \* --- a call of ScreenAnalyzer._remove_duplicates, and a second call on
    \*     the list the first one returned
    dd_pc,            \* "unused", "start", "called", "recalled"
    candidates,       \* the argument as it was when the call was made
    dd_list,          \* the list object that was passed (fields), as it is now
    dd_result,        \* the list the first call returned, as it is now
    dd_result2,       \* the list the second call returned
    \* --- the FieldMatcher and a call of match_fields, made directly or by
    \*     get_suggested_mappings
    anthropic,        \* self.anthropic is set (a client was configured)
    caller,           \* "match_fields", "get_suggested_mappings"
    use_ai,           \* the argument use_ai
    detected_fields,  \* the argument detected_fields
    mf_pc,            \* "unused", "loop", "returned", "raised"
    mf_i,             \* index of the field the loop of line 100 takes next
    matches,          \* the list matches
    outcomes,         \* per field taken: what the loop body did with it
    mappings,         \* the dict get_suggested_mappings returns
    \* --- a call of FormFiller.fill_screen_form
    fs_pc,            \* "unused", "start", "detected", "matched", "filling", "returned"
    preview,          \* the lines _show_screen_form_preview printed
    fs_i,             \* index of the pair the loop of line 121 takes next
    clicks,           \* what pyautogui was made to do, one record per click
    filled_count,     \* the local filled_count
    fs_result,        \* the value fill_screen_form returned
    user_choice,      \* what the user entered at the preview, if asked
    \* --- a call of one of the Pattern Matcher's two methods
    pm_pc,            \* "unused", "start", "returned"
    pm_call,          \* "_pattern_field_matching", "_calculate_pattern_confidence"
    pm_label,         \* the argument field_label
    pm_type,          \* the argument field_type
    pm_pattern,       \* the argument pattern, as <<key index, pattern index>>
    pm_result,        \* what the call returned
    \* --- a call of ScreenAnalyzer._extract_nearby_text
    ex_pc,            \* "unused", "loop", "returned"
    ex_box,           \* the arguments x, y, w, h
    ex_ocr,           \* what OCR would give for the left, above and right region
    ex_i,             \* index of the search region the loop takes next
    ex_calls,         \* the OCR calls made, in order
    ex_result,        \* what the call returned
    \* --- the ScreenAnalyzer and a call of detect_form_fields
    dt_pc,            \* "unused", "start", "returned", "raised"
    frame_arg,        \* the argument screenshot
    screenshot,       \* self.screenshot
    form_fields,      \* self.form_fields
    dt_result,        \* what the call returned
    detected_on,      \* the frame of the latest detection that returned
    an_calls,         \* calls made on the analyzer so far
    \* --- a call of _classify_field_type
    cl_pc,            \* "unused", "start", "returned"
    cl_w,             \* the argument w
    cl_h,             \* the argument h
    cl_result         \* what the call returned

dedupVars == <<dd_pc, candidates, dd_list, dd_result, dd_result2>>

matchVars == <<anthropic, caller, use_ai, detected_fields, mf_pc, mf_i, matches,
               outcomes, mappings>>

fillVars == <<fs_pc, preview, fs_i, clicks, filled_count, fs_result,
              user_choice>>

patVars == <<pm_pc, pm_call, pm_label, pm_type, pm_pattern, pm_result>>

extractVars == <<ex_pc, ex_box, ex_ocr, ex_i, ex_calls, ex_result>>

detectVars == <<dt_pc, frame_arg, screenshot, form_fields, dt_result,
                detected_on, an_calls>>

classifyVars == <<cl_pc, cl_w, cl_h, cl_result>>

vars == <<dedupVars, matchVars, fillVars, patVars, extractVars, detectVars,
          classifyVars>>

(***************************************************************************)
(* Python's None, and small helpers.                                       *)
(***************************************************************************)
\* None where the other values are records (Optional[FieldMatch]).
None == [none |-> TRUE]

\* Optional[str]: the empty tuple for None, <<s>> for the str s.
NoneStr == <<>>

Str(s) == <<s>>

\* `label or ''`
OrEmpty(label) == IF label = NoneStr THEN "" ELSE label[1]

\* Mutant of Truthy: only None is false.
TruthyWhenPresent(label) == label # NoneStr

\* The truth value of an Optional[str]: None and '' are false.
Truthy(label) == label # NoneStr /\ label[1] # ""

Min(a, b) == IF a < b THEN a ELSE b

Max(a, b) == IF a > b THEN a ELSE b

Range(s) == {s[i] : i \in 1..Len(s)}

\* The value e, with v evaluated before it: a LET is evaluated on demand, and
\* a long chain of pending evaluations would exhaust the evaluation stack.
Evaluated(v, e) == IF v = v THEN e ELSE e

SeqsUpTo(S, n) == UNION {[1..k -> S] : k \in 0..n}

(***************************************************************************)
(* ScreenAnalyzer._remove_duplicates (screen_analyzer.py 162-193).         *)
(*                                                                         *)
(* A FormField is a record; its field id stands for the identity of the    *)
(* Python object, which the list operations preserve.                      *)
(***************************************************************************)

\* fields.sort(key=lambda f: f.confidence, reverse=True): Python's sort is
\* stable, also with reverse=True, so equal confidences keep their order.
\* Insert f into an already sorted list, behind every element whose
\* confidence is at least its own.
\* Mutant of SortInsert: an element goes in front of the elements of equal
\* confidence, as a sort that is not stable would put it.
SortInsertTiesReversed(sorted, f) ==
    LET n == Cardinality({i \in 1..Len(sorted) : sorted[i].confidence > f.confidence})
    IN  SubSeq(sorted, 1, n) \o <<f>> \o SubSeq(sorted, n + 1, Len(sorted))

\* Mutant of SortInsert: the lowest confidence first.
SortInsertAscending(sorted, f) ==
    LET n == Cardinality({i \in 1..Len(sorted) : sorted[i].confidence <= f.confidence})
    IN  SubSeq(sorted, 1, n) \o <<f>> \o SubSeq(sorted, n + 1, Len(sorted))

SortInsert(sorted, f) ==
    LET n == Cardinality({i \in 1..Len(sorted) : sorted[i].confidence >= f.confidence})
    IN  SubSeq(sorted, 1, n) \o <<f>> \o SubSeq(sorted, n + 1, Len(sorted))

\* Mutant of SortByConfidence: the candidates are taken in input order.
SortByConfidenceSkipped(fields) == fields

RECURSIVE SortByConfidenceUpTo(_, _)
SortByConfidenceUpTo(fields, k) ==
    IF k = 0 THEN <<>>
    ELSE SortInsert(SortByConfidenceUpTo(fields, k - 1), fields[k])

SortByConfidence(fields) == SortByConfidenceUpTo(fields, Len(fields))

\* overlap_x * overlap_y  (lines 175-179)
OverlapArea(field, existing) ==
    LET overlap_x == Max(0, Min(field.x + field.width, existing.x + existing.width)
                            - Max(field.x, existing.x))
        overlap_y == Max(0, Min(field.y + field.height, existing.y + existing.height)
                            - Max(field.y, existing.y))
    IN  overlap_x * overlap_y

\* min(field_area, existing_area)  (lines 181-184)
MinArea(field, existing) ==
    Min(field.width * field.height, existing.width * existing.height)

\* overlap_ratio = overlap_area / min(...) ; overlap_ratio > 0.5  (184-186).
\* Both operands are integers far below 2^53, so the float quotient exceeds
\* 0.5 exactly when twice the overlap exceeds the smaller area.
\* Mutant of OverlapsTooMuch: the threshold test written >= instead of >.
OverlapsAtLeastHalf(field, existing) ==
    2 * OverlapArea(field, existing) >= MinArea(field, existing)

OverlapsTooMuch(field, existing) ==
    2 * OverlapArea(field, existing) > MinArea(field, existing)

\* Mutant of IsDuplicate: only the most recently kept field is compared.
IsDuplicateOfLastKept(field, filtered_fields) ==
    /\ filtered_fields # <<>>
    /\ OverlapsTooMuch(field, filtered_fields[Len(filtered_fields)])

\* The inner loop over filtered_fields (lines 172-188).
IsDuplicate(field, filtered_fields) ==
    \E j \in 1..Len(filtered_fields) : OverlapsTooMuch(field, filtered_fields[j])

\* The outer loop over the sorted list (lines 170-191), after k fields.
RECURSIVE FilterUpTo(_, _)
FilterUpTo(sorted, k) ==
    IF k = 0 THEN <<>>
    ELSE LET before == FilterUpTo(sorted, k - 1)
         IN  IF IsDuplicate(sorted[k], before) THEN before
             ELSE Append(before, sorted[k])

\* The value _remove_duplicates returns.
RemoveDuplicates(fields) ==
    IF fields = <<>> THEN fields
    ELSE LET sorted == SortByConfidence(fields)
         IN  FilterUpTo(sorted, Len(sorted))

\* The list object passed in, after the call: sorted in place (line 168).
ListAfterRemoveDuplicates(fields) ==
    IF fields = <<>> THEN fields ELSE SortByConfidence(fields)

(***************************************************************************)
(* Text primitives: the str methods and the part of the re module that     *)
(* field_matcher.py uses.                                                  *)
(***************************************************************************)
\* s[i - 1] of Python, and the empty string off either end.
Char(s, i) == IF i >= 1 /\ i <= Len(s) THEN SubSeq(s, i, i) ELSE ""

UpperCaseLetters == "ABCDEFGHIJKLMNOPQRSTUVWXYZ"

LowerCaseLetters == "abcdefghijklmnopqrstuvwxyz"

Digits == "0123456789"

CharsOf(s) == {Char(s, i) : i \in 1..Len(s)}

UpperCaseChars == CharsOf(UpperCaseLetters)

DigitChars == CharsOf(Digits)

\* \w of the re module, over ASCII text.
WordChars == UpperCaseChars \cup CharsOf(LowerCaseLetters) \cup DigitChars \cup {"_"}

\* \s of the re module and the characters str.strip() removes.
SpaceChars == {" ", "\t", "\n", "\r", "\f"}

IndexIn(s, c) == CHOOSE i \in 1..Len(s) : Char(s, i) = c

\* Mutant of Lower: the label is matched as it is written.
LowerAsWritten(s) == s

\* str.lower()
RECURSIVE Lower(_)
Lower(s) ==
    IF s = "" THEN ""
    ELSE LET c == Char(s, 1)
         IN  (IF c \in UpperCaseChars
              THEN Char(LowerCaseLetters, IndexIn(UpperCaseLetters, c))
              ELSE c) \o Lower(SubSeq(s, 2, Len(s)))

\* str.strip(chars): drop the leading and trailing characters that are in chars.
RECURSIVE LStrip(_, _)
LStrip(s, chars) ==
    IF s # "" /\ Char(s, 1) \in chars THEN LStrip(SubSeq(s, 2, Len(s)), chars) ELSE s

RECURSIVE RStrip(_, _)
RStrip(s, chars) ==
    IF s # "" /\ Char(s, Len(s)) \in chars THEN RStrip(SubSeq(s, 1, Len(s) - 1), chars) ELSE s

StripChars(s, chars) == RStrip(LStrip(s, chars), chars)

\* str.strip()
Strip(s) == StripChars(s, SpaceChars)

StartsWithAt(s, i, sub) ==
    i >= 1 /\ i + Len(sub) - 1 <= Len(s) /\ SubSeq(s, i, i + Len(sub) - 1) = sub

\* sub in s
Contains(s, sub) == \E i \in 1..(Len(s) - Len(sub) + 1) : StartsWithAt(s, i, sub)

\* str.replace(old, new), old not empty: left to right, not overlapping.
RECURSIVE Replace(_, _, _)
Replace(s, old, new) ==
    IF s = "" THEN ""
    ELSE IF StartsWithAt(s, 1, old)
         THEN new \o Replace(SubSeq(s, Len(old) + 1, Len(s)), old, new)
         ELSE Char(s, 1) \o Replace(SubSeq(s, 2, Len(s)), old, new)

\* str.split(sep), sep one character: the list of the parts between the separators.
RECURSIVE SplitFrom(_, _, _, _)
SplitFrom(s, sep, i, part) ==
    IF i > Len(s) THEN <<part>>
    ELSE IF Char(s, i) = sep THEN <<part>> \o SplitFrom(s, sep, i + 1, "")
         ELSE SplitFrom(s, sep, i + 1, part \o Char(s, i))

Split(s, sep) == SplitFrom(s, sep, 1, "")

\* \b: a position between a word character and a non-word character (or an end).
IsWordAt(t, i) == i >= 1 /\ i <= Len(t) /\ Char(t, i) \in WordChars

AtWordBoundary(t, i) == IsWordAt(t, i - 1) # IsWordAt(t, i)

\* A match of the regular expression p, read from its position pi, against the
\* text t from position ti.  The syntax is that of the table's patterns:
\* \b, \s*, \s, an escaped literal such as \( and plain literal characters.
RECURSIVE MatchAt(_, _, _, _)
MatchAt(p, pi, t, ti) ==
    IF pi > Len(p) THEN TRUE
    ELSE IF Char(p, pi) = "\\"
    THEN LET e == Char(p, pi + 1)
         IN  IF e = "b" THEN AtWordBoundary(t, ti) /\ MatchAt(p, pi + 2, t, ti)
             ELSE IF e = "s" /\ Char(p, pi + 2) = "*"
             THEN \E k \in 0..(Len(t) - ti + 1) :
                     /\ \A j \in ti..(ti + k - 1) : Char(t, j) \in SpaceChars
                     /\ MatchAt(p, pi + 3, t, ti + k)
             ELSE IF e = "s"
             THEN ti <= Len(t) /\ Char(t, ti) \in SpaceChars /\ MatchAt(p, pi + 2, t, ti + 1)
             ELSE ti <= Len(t) /\ Char(t, ti) = e /\ MatchAt(p, pi + 2, t, ti + 1)
    ELSE ti <= Len(t) /\ Char(t, ti) = Char(p, pi) /\ MatchAt(p, pi + 1, t, ti + 1)

\* re.search(pattern, text) finds a match.
ReSearch(pattern, text) == \E start \in 1..(Len(text) + 1) : MatchAt(pattern, 1, text, start)

\* float(s) for s already stripped: [sign] digits [. digits], at least one
\* digit.  ok is FALSE where float() raises ValueError.  The value is in
\* millionths; digits behind the sixth decimal are not read.
RECURSIVE DigitsValue(_)
DigitsValue(s) ==
    IF s = "" THEN 0
    ELSE 10 * DigitsValue(SubSeq(s, 1, Len(s) - 1)) + (IndexIn(Digits, Char(s, Len(s))) - 1)

AllDigits(s) == \A i \in 1..Len(s) : Char(s, i) \in DigitChars

ParseFloat(s) ==
    LET signed   == s # "" /\ Char(s, 1) \in {"+", "-"}
        negative == signed /\ Char(s, 1) = "-"
        body     == IF signed THEN SubSeq(s, 2, Len(s)) ELSE s
        parts    == Split(body, ".")
        ip       == parts[1]
        fp       == IF Len(parts) = 2 THEN parts[2] ELSE ""
        ok       == /\ Len(parts) <= 2
                    /\ AllDigits(ip) /\ AllDigits(fp)
                    /\ Len(ip) + Len(fp) >= 1
        frac6    == SubSeq(fp \o "000000", 1, 6)
        mag      == DigitsValue(ip) * 1000000 + DigitsValue(frac6)
    IN  [ok |-> ok, value |-> IF ~ok THEN 0 ELSE IF negative THEN 0 - mag ELSE mag]


(***************************************************************************)
(* FieldMatcher (field_matcher.py).                                        *)
(***************************************************************************)

\* self.field_patterns (lines 24-94), in the order the dict is iterated in.
field_patterns == <<
    [data_key |-> "first_name", patterns |-> <<
        "\\bfirst\\s*name\\b", "\\bfname\\b", "\\bgiven\\s*name\\b",
        "\\bforename\\b", "\\bname\\s*\\(first\\)", "\\bfirst\\b" >>],
    [data_key |-> "last_name", patterns |-> <<
        "\\blast\\s*name\\b", "\\blname\\b", "\\bsurname\\b",
        "\\bfamily\\s*name\\b", "\\bname\\s*\\(last\\)", "\\blast\\b" >>],
    [data_key |-> "full_name", patterns |-> <<
        "\\bfull\\s*name\\b", "\\bname\\b", "\\bcomplete\\s*name\\b",
        "\\byour\\s*name\\b", "\\bapplicant\\s*name\\b" >>],
    [data_key |-> "email", patterns |-> <<
        "\\bemail\\b", "\\be-mail\\b", "\\bemail\\s*address\\b",
        "\\bcontact\\s*email\\b", "\\bmail\\b" >>],
    [data_key |-> "phone", patterns |-> <<
        "\\bphone\\b", "\\btelephone\\b", "\\bmobile\\b", "\\bcell\\b",
        "\\bphone\\s*number\\b", "\\bcontact\\s*number\\b", "\\btel\\b" >>],
    [data_key |-> "address", patterns |-> <<
        "\\baddress\\b", "\\bstreet\\b", "\\bhome\\s*address\\b",
        "\\bmailing\\s*address\\b", "\\bresidential\\s*address\\b" >>],
    [data_key |-> "city", patterns |-> <<
        "\\bcity\\b", "\\btown\\b", "\\blocality\\b" >>],
    [data_key |-> "state", patterns |-> <<
        "\\bstate\\b", "\\bprovince\\b", "\\bregion\\b" >>],
    [data_key |-> "zip", patterns |-> <<
        "\\bzip\\b", "\\bpostal\\s*code\\b", "\\bpostcode\\b",
        "\\bzip\\s*code\\b" >>],
    [data_key |-> "country", patterns |-> <<
        "\\bcountry\\b", "\\bnation\\b", "\\bnationality\\b" >>],
    [data_key |-> "university", patterns |-> <<
        "\\buniversity\\b", "\\bcollege\\b", "\\bschool\\b",
        "\\binstitution\\b", "\\beducation\\b", "\\balma\\s*mater\\b" >>],
    [data_key |-> "degree", patterns |-> <<
        "\\bdegree\\b", "\\bqualification\\b", "\\beducation\\s*level\\b",
        "\\bmajor\\b", "\\bfield\\s*of\\s*study\\b" >>],
    [data_key |-> "graduation_year", patterns |-> <<
        "\\bgraduation\\b", "\\byear\\b", "\\bgrad\\s*year\\b",
        "\\bcompletion\\s*year\\b", "\\bgraduate\\s*year\\b" >>],
    [data_key |-> "gpa", patterns |-> <<
        "\\bgpa\\b", "\\bgrade\\s*point\\b", "\\baverage\\b",
        "\\bgrading\\b" >>],
    [data_key |-> "visa_status", patterns |-> <<
        "\\bvisa\\b", "\\bwork\\s*authorization\\b", "\\beligibility\\b",
        "\\bstatus\\b", "\\bsponsorship\\b" >>],
    [data_key |-> "salary_expectation", patterns |-> <<
        "\\bsalary\\b", "\\bcompensation\\b", "\\bexpectation\\b",
        "\\bexpected\\s*salary\\b", "\\bpay\\b", "\\bwage\\b" >>],
    [data_key |-> "start_date", patterns |-> <<
        "\\bstart\\s*date\\b", "\\bavailable\\b", "\\bbegin\\b",
        "\\bcommence\\b", "\\bstart\\s*work\\b" >>],
    [data_key |-> "linkedin", patterns |-> <<
        "\\blinkedin\\b", "\\blinked\\s*in\\b", "\\bprofile\\b" >>],
    [data_key |-> "website", patterns |-> <<
        "\\bwebsite\\b", "\\bportfolio\\b", "\\burl\\b", "\\bhomepage\\b" >>]
>>

\* Mutant of generic_patterns: a pattern whose text has ten characters is
\* generic too.
generic_patterns_and_first_name ==
    {"\\bname\\b", "\\baddress\\b", "\\bfirst\\s*name\\b"}

\* generic_patterns (line 221)
generic_patterns == {"\\bname\\b", "\\baddress\\b"}

\* Mutant of FloatAdd: every step ten times as large.
FloatAddTenfold(a, b) == a + 10 * b

\* The float results of the additions of _calculate_pattern_confidence, in
\* millionths: Python gives 0.6 + 0.3 = 0.8999999999999999,
\* 0.8999999999999999 + 0.1 = 0.9999999999999999, 0.6 + 0.1 = 0.7,
\* 0.6 - 0.2 = 0.39999999999999997, 0.7 - 0.2 = 0.49999999999999994,
\* 0.8999999999999999 - 0.2 = 0.7 and 0.9999999999999999 - 0.2 =
\* 0.7999999999999998.
FloatAdd(a, b) ==
    CASE a = 600000 /\ b = 300000  -> 899999
      [] a = 899999 /\ b = -200000 -> 700000
      [] a = 600000 /\ b = -200000 -> 399999
      [] a = 700000 /\ b = -200000 -> 499999
      [] OTHER -> a + b

\* pattern.strip(r'\b').replace(r'\s*', ' ')  (line 212): strip takes its
\* argument as a set of characters, the backslash and the letter b.
PatternClean(pattern) == Replace(StripChars(pattern, {"\\", "b"}), "\\s*", " ")

\* _calculate_pattern_confidence (lines 206-225)
CalculatePatternConfidence(pattern, field_label) ==
    LET pattern_clean == PatternClean(pattern)
        c0 == 600000
        c1 == IF Contains(field_label, pattern_clean) THEN FloatAdd(c0, 300000) ELSE c0
        c2 == IF Len(pattern_clean) < 10 THEN FloatAdd(c1, 100000) ELSE c1
        c3 == IF pattern \in generic_patterns THEN FloatAdd(c2, -200000) ELSE c2
    IN  Min(1000000, c3)

\* FieldMatch (lines 10-15)
FieldMatch(field_name, data_key, confidence, reasoning) ==
    [field_name |-> field_name, data_key |-> data_key,
     confidence |-> confidence, reasoning |-> reasoning]

\* Mutant of TryPattern: a later pattern of equal confidence replaces the best.
TryPatternLastWins(field_label, field_label_lower, data_key, pattern, best) ==
    IF ReSearch(pattern, field_label_lower)
    THEN LET confidence == CalculatePatternConfidence(pattern, field_label_lower)
             best_confidence == IF best = None THEN 0 ELSE best.confidence
         IN  IF confidence >= best_confidence
             THEN [field_name |-> field_label, data_key |-> data_key,
                   confidence |-> confidence,
                   reasoning |-> "Pattern match: " \o pattern]
             ELSE best
    ELSE best

\* Lines 174-185 for one pattern: the best match after it, given the best
\* match before it (None while best_confidence is still 0.0).
TryPattern(field_label, field_label_lower, data_key, pattern, best) ==
    IF ReSearch(pattern, field_label_lower)
    THEN LET confidence == CalculatePatternConfidence(pattern, field_label_lower)
             best_confidence == IF best = None THEN 0 ELSE best.confidence
         IN  IF confidence > best_confidence
             THEN FieldMatch(field_label, data_key, confidence,
                             "Pattern match: " \o pattern)
             ELSE best
    ELSE best

\* The inner loop (line 173) over the first j patterns of the k-th key.
RECURSIVE PatternLoop(_, _, _, _, _)
PatternLoop(field_label, field_label_lower, k, j, best) ==
    IF j = 0 THEN best
    ELSE TryPattern(field_label, field_label_lower, field_patterns[k].data_key,
                    field_patterns[k].patterns[j],
                    PatternLoop(field_label, field_label_lower, k, j - 1, best))

\* The outer loop (line 172) over the first k keys: best_match after them.
RECURSIVE KeyLoop(_, _, _)
KeyLoop(field_label, field_label_lower, k) ==
    IF k = 0 THEN None
    ELSE LET before == KeyLoop(field_label, field_label_lower, k - 1)
         IN  Evaluated(before,
                 PatternLoop(field_label, field_label_lower, k,
                             Len(field_patterns[k].patterns), before))

\* file_keywords (lines 189-193), in iteration order.
file_keywords == <<
    [file_type |-> "resume",       keywords |-> {"resume", "cv", "curriculum vitae"}],
    [file_type |-> "cover_letter", keywords |-> {"cover letter", "covering letter", "motivation"}],
    [file_type |-> "transcript",   keywords |-> {"transcript", "grades", "academic record"}]
>>

\* Mutant of FileKeywordHit: the keyword lists are never hit.
FileKeywordNeverHit(field_label_lower, k) == FALSE

\* any(keyword in field_label_lower for keyword in keywords)  (line 196)
FileKeywordHit(field_label_lower, k) ==
    \E keyword \in file_keywords[k].keywords : Contains(field_label_lower, keyword)

\* _pattern_field_matching (lines 163-204)
PatternFieldMatching(field_label, field_type) ==
    IF field_label = "" THEN None
    ELSE LET field_label_lower == Lower(field_label)
             best_match == KeyLoop(field_label, field_label_lower, Len(field_patterns))
             hits == {k \in 1..Len(file_keywords) : FileKeywordHit(field_label_lower, k)}
         IN  IF field_type = "file" /\ hits # {}
             THEN LET k == CHOOSE h \in hits : \A g \in hits : h <= g
                  IN  FieldMatch(field_label, file_keywords[k].file_type, 800000,
                                 "File upload field for " \o file_keywords[k].file_type)
             ELSE best_match

\* The text-understanding service's answer to one request: the call raises,
\* or it returns a message whose first content block has this text.
ServiceError == [raises |-> TRUE]

ServiceText(text) == [raises |-> FALSE, text |-> text]

\* The result of a Python call: a value, or an exception on its way out.
Returns(value) == [raised |-> FALSE, value |-> value]

Raises == [raised |-> TRUE, value |-> None]

\* The try block of _ai_field_matching (lines 118-156), given the service's
\* answer: the request may raise, and so may float() (ValueError).
AiTryBlock(field_label, field_type, response) ==
    IF response.raises THEN Raises
    ELSE LET result == Strip(response.text)
             parts  == Split(result, "|")
         IN  IF Len(parts) >= 3 /\ parts[1] # "unknown"
             THEN LET confidence == ParseFloat(Strip(parts[2]))
                  IN  IF confidence.ok
                      THEN Returns(FieldMatch(field_label, Strip(parts[1]),
                                              confidence.value, Strip(parts[3])))
                      ELSE Raises
             ELSE Returns(None)

\* Mutant of AiFieldMatching: no except clause.
AiFieldMatchingUncaught(field_label, field_type, response) ==
    AiTryBlock(field_label, field_type, response)

\* _ai_field_matching (lines 115-161): every exception of the try block is
\* caught (line 158) and the method returns None (line 161).
AiFieldMatching(field_label, field_type, response) ==
    LET attempt == AiTryBlock(field_label, field_type, response)
    IN  IF attempt.raised THEN Returns(None) ELSE attempt

\* Label and kind of the detected fields of the model.
FieldChoices == {
    [label |-> NoneStr,              field_type |-> "file"],
    [label |-> Str(""),              field_type |-> "input"],
    [label |-> Str("Email Address"), field_type |-> "input"],
    [label |-> Str("xyz123"),        field_type |-> "input"],
    [label |-> Str("Upload Resume"), field_type |-> "file"] }

\* _pattern_field_matching as a table over the labels and kinds of the
\* model's fields, so that it is computed once for each of them.
\* Label and kind of the fields detection yields from the frames of the model.
DetectableFields ==
    {[label |-> label, field_type |-> field_type] :
        label \in {NoneStr, Str("First Name"), Str("Upload Resume"),
                   Str("Upload"), Str("CV")},
        field_type \in {"input", "textarea", "select", "file"}}

PatternMatchOf ==
    [choice \in FieldChoices \cup DetectableFields |->
        PatternFieldMatching(OrEmpty(choice.label), choice.field_type)]

\* self._pattern_field_matching(field.label or '', field.field_type)  (line 109)
PatternMatchFor(field) ==
    PatternMatchOf[[label |-> field.label, field_type |-> field.field_type]]

\* The body of the loop of match_fields (lines 101-111) for one field, given
\* the answer the service gives if it is asked.
\*   asked    the service was requested (line 103 ran)
\*   response what the service answered, None if it was not asked
\*   raised   an exception left the loop body
\*   by       the strategy whose result the body took
\*   match    the FieldMatch appended, None if none
MatchOneField(field, enabled, configured, response) ==
    IF enabled /\ configured /\ Truthy(field.label)
    THEN LET call == AiFieldMatching(field.label[1], field.field_type, response)
         IN  IF call.raised
             THEN [asked |-> TRUE, response |-> response, raised |-> TRUE,
                   by |-> "ai", match |-> None]
             ELSE IF call.value # None
             THEN [asked |-> TRUE, response |-> response, raised |-> FALSE,
                   by |-> "ai", match |-> call.value]
             ELSE [asked |-> TRUE, response |-> response, raised |-> FALSE,
                   by |-> "pattern",
                   match |-> PatternMatchFor(field)]
    ELSE [asked |-> FALSE, response |-> None, raised |-> FALSE,
          by |-> "pattern",
          match |-> PatternMatchFor(field)]

\* Mutant of IsConfident: the filter written >= instead of >.
IsConfidentOrEven(match) == match.confidence >= 500000

\* match.confidence > 0.5  (line 233)
IsConfident(match) == match.confidence > 500000

\* The loop of get_suggested_mappings (lines 231-234) over the first k
\* matches: a later match of the same label replaces the earlier entry.
RECURSIVE MappingsUpTo(_, _)
MappingsUpTo(ms, k) ==
    IF k = 0 THEN <<>>
    ELSE LET before == MappingsUpTo(ms, k - 1)
         IN  IF IsConfident(ms[k])
             THEN (ms[k].field_name :> ms[k].data_key) @@ before
             ELSE before

(***************************************************************************)
(* ScreenAnalyzer._extract_nearby_text (screen_analyzer.py 97-126).        *)
(*                                                                         *)
(* A frame is known by its size, its contours and what OCR reads in it.    *)
(* What OCR gives for a region is an answer: the call raises, or it        *)
(* returns a text.                                                         *)
(***************************************************************************)

\* gray.shape[1] and gray.shape[0] of the frames of the model.
FrameWidth == 1000

FrameHeight == 600

OcrError == [raises |-> TRUE]

OcrText(text) == [raises |-> FALSE, text |-> text]

\* The extent of the slice a:b of an axis of the given length.
SliceLength(a, b, length) == Max(0, Min(b, length) - Min(a, length))

\* search_regions (lines 104-111): the name and region.size of each.
SearchRegions(x, y, w, h) == <<
    [name |-> "left",
     size |-> SliceLength(Max(0, y - 20), y + h + 20, FrameHeight)
              * SliceLength(Max(0, x - 200), x, FrameWidth)],
    [name |-> "above",
     size |-> SliceLength(Max(0, y - 40), y, FrameHeight)
              * SliceLength(x, x + w, FrameWidth)],
    [name |-> "right",
     size |-> SliceLength(Max(0, y - 20), y + h + 20, FrameHeight)
              * SliceLength(x + w, Min(FrameWidth, x + w + 200), FrameWidth)] >>

\* re.sub(r'[^\w\s]', '', text)
RECURSIVE RemovePunctuation(_)
RemovePunctuation(s) ==
    IF s = "" THEN ""
    ELSE (IF Char(s, 1) \in WordChars \cup SpaceChars THEN Char(s, 1) ELSE "")
         \o RemovePunctuation(SubSeq(s, 2, Len(s)))

\* Lines 118-120: the text as it is validated.
CleanText(raw) == Strip(RemovePunctuation(Strip(raw)))

\* Mutant of IsUsableText: a text of 50 characters passes.
IsUsableTextUpTo50(text) == Len(text) > 2 /\ Len(text) <= 50

\* len(text) > 2 and len(text) < 50  (line 121)
IsUsableText(text) == Len(text) > 2 /\ Len(text) < 50

\* The loop body (lines 114-124) for one search region, given OCR's answer
\* for it: whether OCR was called, and whether a text was returned.
TryRegion(region, answer) ==
    IF region.size = 0
    THEN [called |-> FALSE, returned |-> FALSE, text |-> ""]
    ELSE IF answer.raises
    THEN [called |-> TRUE, returned |-> FALSE, text |-> ""]
    ELSE LET text == CleanText(answer.text)
         IN  [called |-> TRUE, returned |-> IsUsableText(text), text |-> text]

\* Mutant of ExtractFrom: an OCR failure ends the extraction.
RECURSIVE ExtractFromStoppingAtFailure(_, _, _, _)
ExtractFromStoppingAtFailure(regions, answers, i, calls) ==
    IF i > Len(regions) THEN [label |-> NoneStr, calls |-> calls]
    ELSE LET try == TryRegion(regions[i], answers[i])
             made == IF try.called THEN Append(calls, regions[i].name) ELSE calls
         IN  IF try.returned THEN [label |-> Str(try.text), calls |-> made]
             ELSE IF try.called /\ answers[i].raises
             THEN [label |-> NoneStr, calls |-> made]
             ELSE ExtractFromStoppingAtFailure(regions, answers, i + 1, made)

\* The loop (line 113) from the i-th search region on: the label returned
\* and the regions OCR was called on.
RECURSIVE ExtractFrom(_, _, _, _)
ExtractFrom(regions, answers, i, calls) ==
    IF i > Len(regions) THEN [label |-> NoneStr, calls |-> calls]
    ELSE LET try == TryRegion(regions[i], answers[i])
             made == IF try.called THEN Append(calls, regions[i].name) ELSE calls
         IN  IF try.returned THEN [label |-> Str(try.text), calls |-> made]
             ELSE ExtractFrom(regions, answers, i + 1, made)

\* _extract_nearby_text(x, y, w, h, gray), given OCR's answers for the
\* three search regions.
ExtractNearbyText(x, y, w, h, answers) ==
    ExtractFrom(SearchRegions(x, y, w, h), answers, 1, <<>>)

(***************************************************************************)
(* ScreenAnalyzer.detect_form_fields (screen_analyzer.py 37-95, 128-160).  *)
(*                                                                         *)
(* A frame is a record: its contours, each with its bounding rectangle,    *)
(* its contour area and OCR's answers for the three search regions around  *)
(* it, and OCR's answer for the whole frame (image_to_data).               *)
(***************************************************************************)

\* Mutant of NoFrameAvailable: a captured frame is not looked for.
NoFrameArgument(argument, captured) == argument = None

\* Lines 39-42: no screenshot argument and no self.screenshot.
NoFrameAvailable(argument, captured) == argument = None /\ captured = None

\* Lines 39-40: the frame the detection works on.
FrameUsed(argument, captured) == IF argument # None THEN argument ELSE captured

\* Mutant of PassesFilter: the contour area is not tested.
PassesFilterWithoutArea(contour) ==
    /\ 20 < contour.w /\ contour.w < 800
    /\ 15 < contour.h /\ contour.h < 100
    /\ 3 * contour.h < 2 * contour.w /\ contour.w < 20 * contour.h

\* Lines 59-63; 1.5 < w / h < 20 in whole numbers.
PassesFilter(contour) ==
    /\ 20 < contour.w /\ contour.w < 800
    /\ 15 < contour.h /\ contour.h < 100
    /\ contour.area > 300
    /\ 3 * contour.h < 2 * contour.w /\ contour.w < 20 * contour.h

\* Mutant of ClassifyFieldType: a height of 80 already gives a textarea.
ClassifyFieldTypeFromEighty(w, h) ==
    IF h >= 80 THEN "textarea"
    ELSE IF w > 400 /\ h < 50 THEN "input"
    ELSE IF 100 < w /\ w < 200 /\ 20 < h /\ h < 40 THEN "select"
    ELSE "input"

\* _classify_field_type (lines 82-95)
ClassifyFieldType(w, h) ==
    IF h > 80 THEN "textarea"
    ELSE IF w > 400 /\ h < 50 THEN "input"
    ELSE IF 100 < w /\ w < 200 /\ 20 < h /\ h < 40 THEN "select"
    ELSE "input"

\* The loop of lines 55-71 over the first k contours.  The id of a field is
\* given when the list is complete.
RECURSIVE GeometryFields(_, _)
GeometryFields(contours, k) ==
    IF k = 0 THEN <<>>
    ELSE LET c == contours[k]
             before == GeometryFields(contours, k - 1)
         IN  IF PassesFilter(c)
             THEN Append(before,
                         [id |-> 0, x |-> c.x, y |-> c.y, width |-> c.w, height |-> c.h,
                          field_type |-> ClassifyFieldType(c.w, c.h),
                          label |-> ExtractNearbyText(c.x, c.y, c.w, c.h, c.ocr).label,
                          confidence |-> 700000])
             ELSE before

\* upload_keywords (line 137)
upload_keywords ==
    {"upload", "choose file", "browse", "attach", "select file", "resume", "cv"}

\* Mutant of KeywordConfidence: the percentage divided by 10.
KeywordConfidenceByTen(confidence) == confidence * 100000

\* confidence/100.0  (line 155), in millionths
KeywordConfidence(confidence) == confidence * 10000

\* The loop of lines 139-156 over the first k tokens of image_to_data.
RECURSIVE KeywordFieldsUpTo(_, _)
KeywordFieldsUpTo(tokens, k) ==
    IF k = 0 THEN <<>>
    ELSE LET t == tokens[k]
             text == Lower(t.text)
             before == KeywordFieldsUpTo(tokens, k - 1)
         IN  IF t.conf > 30 /\ \E keyword \in upload_keywords : Contains(text, keyword)
             THEN Append(before,
                         [id |-> 0, x |-> Max(0, t.left - 20), y |-> Max(0, t.top - 10),
                          width |-> t.width + 40, height |-> t.height + 20,
                          field_type |-> "file", label |-> Str(t.text),
                          confidence |-> KeywordConfidence(t.conf)])
             ELSE before

\* _detect_buttons_and_uploads (lines 128-160): an OCR failure is caught
\* and leaves the list empty.
DetectButtonsAndUploads(data) ==
    IF data.raises THEN <<>> ELSE KeywordFieldsUpTo(data.tokens, Len(data.tokens))

\* The objects of a list, each known by its position in it.
Identified(fields) == [i \in 1..Len(fields) |-> [fields[i] EXCEPT !.id = i]]

\* Mutant of DetectFormFields: the keyword pass is left out.
DetectFormFieldsGeometryOnly(frame) ==
    RemoveDuplicates(Identified(GeometryFields(frame.contours, Len(frame.contours))))

\* Lines 49-77 for a frame that is there.
DetectFormFields(frame) ==
    RemoveDuplicates(Identified(GeometryFields(frame.contours, Len(frame.contours))
                                \o DetectButtonsAndUploads(frame.data)))

(***************************************************************************)
(* The components a specification does not exercise stay as constructed.   *)
(***************************************************************************)
DedupUnused ==
    /\ dd_pc = "unused"
    /\ candidates = <<>>
    /\ dd_list = <<>>
    /\ dd_result = <<>>
    /\ dd_result2 = <<>>

MatchUnused ==
    /\ anthropic = FALSE
    /\ caller = "match_fields"
    /\ use_ai = TRUE
    /\ detected_fields = <<>>
    /\ mf_pc = "unused"
    /\ mf_i = 1
    /\ matches = <<>>
    /\ outcomes = <<>>
    /\ mappings = <<>>

FillUnused ==
    /\ fs_pc = "unused"
    /\ preview = <<>>
    /\ fs_i = 1
    /\ clicks = <<>>
    /\ filled_count = 0
    /\ fs_result = FALSE
    /\ user_choice = NoneStr

PatternUnused ==
    /\ pm_pc = "unused"
    /\ pm_call = "_pattern_field_matching"
    /\ pm_label = ""
    /\ pm_type = "input"
    /\ pm_pattern = <<1, 1>>
    /\ pm_result = None

ExtractUnused ==
    /\ ex_pc = "unused"
    /\ ex_box = [x |-> 0, y |-> 0, w |-> 0, h |-> 0]
    /\ ex_ocr = <<>>
    /\ ex_i = 1
    /\ ex_calls = <<>>
    /\ ex_result = NoneStr

DetectUnused ==
    /\ dt_pc = "unused"
    /\ frame_arg = None
    /\ screenshot = None
    /\ form_fields = <<>>
    /\ dt_result = <<>>
    /\ detected_on = None
    /\ an_calls = 0

ClassifyUnused ==
    /\ cl_pc = "unused"
    /\ cl_w = 0
    /\ cl_h = 0
    /\ cl_result = ""

(***************************************************************************)
(* SpecDedup: _remove_duplicates applied to a candidate sequence, then to  *)
(* its own result.                                                         *)
(***************************************************************************)

\* FormField (screen_analyzer.py 11-20); placeholder is never set.
FormField(id, x, y, width, height, field_type, label, confidence) ==
    [id |-> id, x |-> x, y |-> y, width |-> width, height |-> height,
     field_type |-> field_type, label |-> label, confidence |-> confidence]

\* Bounding boxes of the candidates: three boxes of width 4 shifted by one
\* pixel each (neighbours overlap by 3/4, the outer two by exactly 1/2), one
\* further right (overlaps of 1/4, 1/2 and none), a small box inside the
\* first two, and the first box shifted down by one row (overlap exactly 1/2).
CandidateBoxes == {
    [x |-> 0, y |-> 0, width |-> 4, height |-> 2],
    [x |-> 1, y |-> 0, width |-> 4, height |-> 2],
    [x |-> 2, y |-> 0, width |-> 4, height |-> 2],
    [x |-> 4, y |-> 0, width |-> 4, height |-> 2],
    [x |-> 1, y |-> 0, width |-> 2, height |-> 2],
    [x |-> 0, y |-> 1, width |-> 4, height |-> 2] }

\* Detection confidences: 0.7 for a contour (line 70), conf/100 for an OCR
\* token (line 155).
CandidateConfidences == {310000, 700000, 900000}

CandidateLists ==
    UNION {[1..k -> CandidateBoxes \X CandidateConfidences] : k \in 0..MaxCandidates}

DedupInit ==
    /\ MatchUnused
    /\ FillUnused
    /\ PatternUnused
    /\ ExtractUnused
    /\ DetectUnused
    /\ ClassifyUnused
    /\ dd_pc = "start"
    /\ \E c \in CandidateLists :
          candidates = [i \in 1..Len(c) |->
                           FormField(i, c[i][1].x, c[i][1].y, c[i][1].width,
                                     c[i][1].height, "input", NoneStr, c[i][2])]
    /\ dd_list = candidates
    /\ dd_result = <<>>
    /\ dd_result2 = <<>>

\* form_fields = self._remove_duplicates(form_fields)  (line 77)
CallRemoveDuplicates ==
    /\ dd_pc = "start"
    /\ dd_pc' = "called"
    /\ dd_result' = RemoveDuplicates(dd_list)
    /\ dd_list' = ListAfterRemoveDuplicates(dd_list)
    /\ UNCHANGED <<candidates, dd_result2, matchVars, fillVars, patVars,
                   extractVars, detectVars, classifyVars>>

\* self._remove_duplicates(filtered): the second pass over the first one's
\* result, which is the list object this call sorts.
CallRemoveDuplicatesAgain ==
    /\ dd_pc = "called"
    /\ dd_pc' = "recalled"
    /\ dd_result2' = RemoveDuplicates(dd_result)
    /\ dd_result' = ListAfterRemoveDuplicates(dd_result)
    /\ UNCHANGED <<candidates, dd_list, matchVars, fillVars, patVars,
                   extractVars, detectVars, classifyVars>>

DedupNext == CallRemoveDuplicates \/ CallRemoveDuplicatesAgain

SpecDedup == DedupInit /\ [][DedupNext]_vars

(***************************************************************************)
(* SpecMatch: FieldMatcher.match_fields over a list of detected fields,    *)
(* called directly or through get_suggested_mappings; one step per field   *)
(* of the loop, the service's answer being chosen at the step that asks.   *)
(***************************************************************************)

\* What the text-understanding service may answer to a request.
ServiceAnswers == {
    ServiceError,
    ServiceText("phone|0.92|clear phone field"),
    ServiceText("unknown|0.0|no idea"),
    ServiceText("unknown |0.0|no idea"),
    ServiceText("email|0.5|even"),
    ServiceText("email|0.51|ok"),
    ServiceText("email|1.5|sure"),
    ServiceText("date_of_birth|0.9|asks for a date"),
    ServiceText("phone|high|clear phone field") }

\* The i-th detected field of a form: a box of its own, one row per field.
DetectedField(i, choice) ==
    FormField(i, 100, 40 * i, 200, 30, choice.field_type, choice.label, 700000)

MatchInit ==
    /\ DedupUnused
    /\ FillUnused
    /\ PatternUnused
    /\ ExtractUnused
    /\ DetectUnused
    /\ ClassifyUnused
    /\ anthropic \in BOOLEAN
    /\ caller \in {"match_fields", "get_suggested_mappings"}
    /\ use_ai \in BOOLEAN
    /\ caller = "get_suggested_mappings" => use_ai
    /\ \E c \in UNION {[1..k -> FieldChoices] : k \in 0..MaxDetected} :
          detected_fields = [i \in 1..Len(c) |-> DetectedField(i, c[i])]
    /\ mf_pc = "loop"
    /\ mf_i = 1
    /\ matches = <<>>
    /\ outcomes = <<>>
    /\ mappings = <<>>

\* One pass through the loop body (lines 100-111), with what it leaves.
LoopBody(response) ==
    LET done == MatchOneField(detected_fields[mf_i], use_ai, anthropic, response)
    IN  /\ outcomes' = Append(outcomes, done)
        /\ IF done.raised
           THEN /\ mf_pc' = "raised"
                /\ UNCHANGED <<mf_i, matches>>
           ELSE /\ mf_pc' = mf_pc
                /\ mf_i' = mf_i + 1
                /\ matches' = IF done.match # None THEN Append(matches, done.match)
                              ELSE matches
        /\ UNCHANGED <<anthropic, caller, use_ai, detected_fields, mappings,
                       dedupVars, fillVars, patVars, extractVars, detectVars,
                       classifyVars>>

\* The loop body for a field the service is asked about (line 101 holds).
MatchFieldAsking ==
    /\ mf_pc = "loop"
    /\ mf_i <= Len(detected_fields)
    /\ use_ai /\ anthropic /\ Truthy(detected_fields[mf_i].label)
    /\ \E response \in ServiceAnswers : LoopBody(response)

\* The loop body for a field the service is not asked about.
MatchFieldByPattern ==
    /\ mf_pc = "loop"
    /\ mf_i <= Len(detected_fields)
    /\ ~(use_ai /\ anthropic /\ Truthy(detected_fields[mf_i].label))
    /\ LoopBody(ServiceError)

\* return matches  (line 113)
MatchFieldsReturn ==
    /\ mf_pc = "loop"
    /\ mf_i > Len(detected_fields)
    /\ caller = "match_fields"
    /\ mf_pc' = "returned"
    /\ UNCHANGED <<anthropic, caller, use_ai, detected_fields, mf_i, matches,
                   outcomes, mappings, dedupVars, fillVars, patVars, extractVars,
                   detectVars, classifyVars>>

\* get_suggested_mappings after its call of match_fields (lines 231-236).
SuggestedMappingsReturn ==
    /\ mf_pc = "loop"
    /\ mf_i > Len(detected_fields)
    /\ caller = "get_suggested_mappings"
    /\ mappings' = MappingsUpTo(matches, Len(matches))
    /\ mf_pc' = "returned"
    /\ UNCHANGED <<anthropic, caller, use_ai, detected_fields, mf_i, matches,
                   outcomes, dedupVars, fillVars, patVars, extractVars,
                   detectVars, classifyVars>>

MatchNext ==
    \/ MatchFieldAsking
    \/ MatchFieldByPattern
    \/ MatchFieldsReturn
    \/ SuggestedMappingsReturn

SpecMatch == MatchInit /\ [][MatchNext]_vars

(***************************************************************************)
(* SpecFill: FormFiller.fill_screen_form, from the capture of the screen   *)
(* to the value it returns.  The steps are the points where the method     *)
(* reads the screen, calls the matcher, asks the user and drives the       *)
(* pointer.  The personal data file is present and loads.                  *)
(***************************************************************************)

\* field_mappings of get_field_value (data_manager.py 83-106) for the
\* personal data of the model: the required attributes are set, the optional
\* ones (linkedin, website, gpa, salary_expectation, start_date) are not.
field_mappings == [
    first_name           |-> Str("Jo"),
    last_name            |-> Str("Doe"),
    full_name            |-> Str("Jo Doe"),
    email                |-> Str("jo@example.com"),
    phone                |-> Str("555-0100"),
    address              |-> Str("1 Main St, Springfield, IL 62701"),
    city                 |-> Str("Springfield"),
    state                |-> Str("IL"),
    zip                  |-> Str("62701"),
    country              |-> Str("US"),
    linkedin             |-> NoneStr,
    website              |-> NoneStr,
    degree               |-> Str("BSc"),
    university           |-> Str("State University"),
    graduation_year      |-> Str("2020"),
    gpa                  |-> NoneStr,
    visa_status          |-> Str("citizen"),
    requires_sponsorship |-> Str("False"),
    salary_expectation   |-> NoneStr,
    start_date           |-> NoneStr,
    remote_work          |-> Str("True"),
    willing_to_relocate  |-> Str("False") ]

\* get_field_value (data_manager.py 78-108): field_mappings.get(name.lower())
GetFieldValue(field_name) ==
    LET key == Lower(field_name)
    IN  IF key \in DOMAIN field_mappings THEN field_mappings[key] ELSE NoneStr

\* file_mappings of get_file_path (data_manager.py 114-118): a resume that
\* exists on disk, no cover letter and no transcript.
file_mappings == [
    resume       |-> Str("files/resume.pdf"),
    cover_letter |-> NoneStr,
    transcript   |-> NoneStr ]

\* get_file_path (data_manager.py 110-123)
GetFilePath(file_type) ==
    LET key == Lower(file_type)
        path == IF key \in DOMAIN file_mappings THEN file_mappings[key] ELSE NoneStr
    IN  IF Truthy(path) THEN path ELSE NoneStr

\* The loop of match_fields (lines 100-111) over the first k fields as one
\* call: the outcomes of the loop bodies, up to the first that raises.
RECURSIVE MatchFieldsOutcomes(_, _, _, _, _)
MatchFieldsOutcomes(fields, enabled, configured, responses, k) ==
    IF k = 0 THEN <<>>
    ELSE LET before == MatchFieldsOutcomes(fields, enabled, configured, responses, k - 1)
         IN  IF before # <<>> /\ before[Len(before)].raised
             THEN before
             ELSE Append(before,
                         MatchOneField(fields[k], enabled, configured, responses[k]))

\* The list matches after the first k loop bodies (line 111 appends a match
\* only if there is one).
RECURSIVE MatchesOf(_, _)
MatchesOf(outs, k) ==
    IF k = 0 THEN <<>>
    ELSE IF outs[k].match # None /\ ~outs[k].raised
    THEN Append(MatchesOf(outs, k - 1), outs[k].match)
    ELSE MatchesOf(outs, k - 1)

\* zip(fields, matches)  (lines 121, 335): pairs by position, as many as the
\* shorter list has.
Zip(fields, ms) ==
    [i \in 1..Min(Len(fields), Len(ms)) |-> [field |-> fields[i], match |-> ms[i]]]

\* `a or b` of two Optional[str]
Or(a, b) == IF Truthy(a) THEN a ELSE b

\* One line of _show_screen_form_preview (lines 335-341) for the i-th pair.
PreviewLine(i, pair) ==
    IF pair.match # None
    THEN [number   |-> i,
          label    |-> Or(pair.field.label, Str("Unknown field")),
          data_key |-> Str(pair.match.data_key),
          value    |-> Or(GetFieldValue(pair.match.data_key),
                          GetFilePath(pair.match.data_key))]
    ELSE [number   |-> i,
          label    |-> Or(pair.field.label, Str("Unknown field")),
          data_key |-> NoneStr,
          value    |-> Str("No match found")]

\* _fill_screen_field (lines 274-308): whether it clicked, what it typed and
\* what it returned.  typewrite(None) raises, and line 306 turns that into
\* False after the click was made.
FillScreenField(field, data_key) ==
    LET value     == GetFieldValue(data_key)
        file_path == GetFilePath(data_key)
        click_x   == field.x + field.width \div 2
        click_y   == field.y + field.height \div 2
    IN  IF ~Truthy(value) /\ ~Truthy(file_path)
        THEN [clicked |-> FALSE, returned |-> FALSE]
        ELSE IF field.field_type = "file" /\ Truthy(file_path)
        THEN [clicked |-> TRUE, returned |-> TRUE, x |-> click_x, y |-> click_y,
              data_key |-> data_key, typed |-> file_path]
        ELSE IF value = NoneStr
        THEN [clicked |-> TRUE, returned |-> FALSE, x |-> click_x, y |-> click_y,
              data_key |-> data_key, typed |-> NoneStr]
        ELSE [clicked |-> TRUE, returned |-> TRUE, x |-> click_x, y |-> click_y,
              data_key |-> data_key, typed |-> value]

\* What the text-understanding service answers while a form is filled.
ServiceAnswersWhenFilling == {
    ServiceError,
    ServiceText("phone|0.92|clear phone field"),
    ServiceText("unknown|0.0|no idea") }

FillInit ==
    /\ DedupUnused
    /\ PatternUnused
    /\ ExtractUnused
    /\ DetectUnused
    /\ ClassifyUnused
    /\ anthropic \in BOOLEAN
    /\ caller = "fill_screen_form"
    /\ use_ai = TRUE
    /\ detected_fields = <<>>
    /\ mf_pc = "unused"
    /\ mf_i = 1
    /\ matches = <<>>
    /\ outcomes = <<>>
    /\ mappings = <<>>
    /\ fs_pc = "start"
    /\ preview = <<>>
    /\ fs_i = 1
    /\ clicks = <<>>
    /\ filled_count = 0
    /\ fs_result = FALSE
    /\ user_choice = NoneStr

\* capture_screen and detect_form_fields (lines 99-109): with no field
\* detected the method returns False.
CaptureAndDetect ==
    /\ fs_pc = "start"
    /\ \E c \in UNION {[1..k -> FieldChoices] : k \in 0..MaxDetected} :
          detected_fields' = [i \in 1..Len(c) |-> DetectedField(i, c[i])]
    /\ fs_pc' = IF detected_fields' = <<>> THEN "returned" ELSE "detected"
    /\ UNCHANGED <<anthropic, caller, use_ai, mf_pc, mf_i, matches, outcomes,
                   mappings, preview, fs_i, clicks, filled_count, fs_result,
                   user_choice, dedupVars, patVars, extractVars, detectVars,
                   classifyVars>>

\* matches = self.field_matcher.match_fields(fields)  (line 112); an
\* exception ends the method in its except clause (lines 129-131).
CallMatchFields ==
    /\ fs_pc = "detected"
    /\ \E responses \in [1..Len(detected_fields) -> ServiceAnswersWhenFilling] :
          LET outs == MatchFieldsOutcomes(detected_fields, use_ai, anthropic,
                                          responses, Len(detected_fields))
          IN  /\ outcomes' = outs
              /\ matches' = MatchesOf(outs, Len(outs))
              /\ IF outs[Len(outs)].raised
                 THEN mf_pc' = "raised" /\ fs_pc' = "returned"
                 ELSE mf_pc' = "returned" /\ fs_pc' = "matched"
    /\ UNCHANGED <<anthropic, caller, use_ai, detected_fields, mf_i, mappings,
                   preview, fs_i, clicks, filled_count, fs_result, user_choice,
                   dedupVars,
                   patVars, extractVars, detectVars, classifyVars>>

\* Mutant of AfterPreview: the form is filled whatever the user entered.
AfterPreviewAlwaysFilling(choice) == "filling"

\* Lines 115-117 and 348-352: the method goes on after "1" and returns False
\* after "2".
AfterPreview(choice) == IF choice = "1" THEN "filling" ELSE "returned"

\* _show_screen_form_preview (lines 329-354), confirmation_required being
\* True (line 28): the lines are printed and the user enters 1 or 2.
ShowScreenFormPreview ==
    /\ fs_pc = "matched"
    /\ preview' = [i \in DOMAIN Zip(detected_fields, matches) |->
                      PreviewLine(i, Zip(detected_fields, matches)[i])]
    /\ \E choice \in {"1", "2"} :
          /\ user_choice' = Str(choice)
          /\ fs_pc' = AfterPreview(choice)
    /\ UNCHANGED <<matchVars, fs_i, clicks, filled_count, fs_result, dedupVars,
                   patVars, extractVars, detectVars, classifyVars>>

\* One pass of the loop of lines 121-124.
FillNextPair ==
    /\ fs_pc = "filling"
    /\ fs_i <= Len(Zip(detected_fields, matches))
    /\ LET pair == Zip(detected_fields, matches)[fs_i]
           done == FillScreenField(pair.field, pair.match.data_key)
       IN  /\ clicks' = IF pair.match # None /\ done.clicked
                        THEN Append(clicks, [x |-> done.x, y |-> done.y,
                                             data_key |-> done.data_key,
                                             typed |-> done.typed])
                        ELSE clicks
           /\ filled_count' = IF pair.match # None /\ done.returned
                              THEN filled_count + 1 ELSE filled_count
    /\ fs_i' = fs_i + 1
    /\ UNCHANGED <<matchVars, fs_pc, preview, fs_result, user_choice, dedupVars,
                   patVars,
                   extractVars, detectVars, classifyVars>>

\* return filled_count > 0  (line 127)
FillReturn ==
    /\ fs_pc = "filling"
    /\ fs_i > Len(Zip(detected_fields, matches))
    /\ fs_result' = (filled_count > 0)
    /\ fs_pc' = "returned"
    /\ UNCHANGED <<matchVars, preview, fs_i, clicks, filled_count, user_choice,
                   dedupVars,
                   patVars, extractVars, detectVars, classifyVars>>

FillNext ==
    \/ CaptureAndDetect
    \/ CallMatchFields
    \/ ShowScreenFormPreview
    \/ FillNextPair
    \/ FillReturn

SpecFill == FillInit /\ [][FillNext]_vars

(***************************************************************************)
(* SpecPattern: one call of _pattern_field_matching on a label and a field *)
(* kind, or of _calculate_pattern_confidence on a pattern of the table and *)
(* a label.                                                                *)
(***************************************************************************)

\* Labels as a form shows them.
PatternLabels == {
    "First Name", "Name (First)", "Name", "Email Address", "e-mail",
    "firstname", "City State", "Phone Mobile", "Home Address", "xyz123",
    "Upload Resume", "Resume Email", "CV and Transcript", "Cover Letter",
    "grades", "Attach" }

\* 'input', 'textarea', 'select', 'file'  (screen_analyzer.py 17)
FieldTypes == {"input", "textarea", "select", "file"}

\* A label of 500 characters: a hundred times "name ".
LongLabel ==
    LET n1  == "name "
        n2  == n1 \o n1
        n4  == n2 \o n2
        n8  == n4 \o n4
        n16 == n8 \o n8
        n32 == n16 \o n16
        n64 == n32 \o n32
    IN  n64 \o n32 \o n4

\* Labels as _calculate_pattern_confidence is given them (lower-cased by its
\* caller), with the empty label and the long one.
ConfidenceLabels == {Lower(label) : label \in PatternLabels} \cup {"", LongLabel}

\* The (key, pattern) positions of the table.
PatternPositions ==
    {<<k, j>> \in (1..Len(field_patterns)) \X (1..7) :
        j <= Len(field_patterns[k].patterns)}

PatternAt(position) == field_patterns[position[1]].patterns[position[2]]

PatternInit ==
    /\ DedupUnused
    /\ MatchUnused
    /\ FillUnused
    /\ ExtractUnused
    /\ DetectUnused
    /\ ClassifyUnused
    /\ pm_pc = "start"
    /\ pm_call \in {"_pattern_field_matching", "_calculate_pattern_confidence"}
    /\ IF pm_call = "_pattern_field_matching"
       THEN /\ pm_label \in PatternLabels \cup {""}
            /\ pm_type \in FieldTypes
            /\ pm_pattern = <<1, 1>>
       ELSE /\ pm_label \in ConfidenceLabels
            /\ pm_type = "input"
            /\ pm_pattern \in PatternPositions
    /\ pm_result = None

\* self._pattern_field_matching(field_label, field_type)
CallPatternFieldMatching ==
    /\ pm_pc = "start"
    /\ pm_call = "_pattern_field_matching"
    /\ pm_result' = PatternFieldMatching(pm_label, pm_type)
    /\ pm_pc' = "returned"
    /\ UNCHANGED <<pm_call, pm_label, pm_type, pm_pattern, dedupVars, matchVars,
                   fillVars, extractVars, detectVars, classifyVars>>

\* self._calculate_pattern_confidence(pattern, field_label)
CallCalculatePatternConfidence ==
    /\ pm_pc = "start"
    /\ pm_call = "_calculate_pattern_confidence"
    /\ pm_result' = CalculatePatternConfidence(PatternAt(pm_pattern), pm_label)
    /\ pm_pc' = "returned"
    /\ UNCHANGED <<pm_call, pm_label, pm_type, pm_pattern, dedupVars, matchVars,
                   fillVars, extractVars, detectVars, classifyVars>>

PatternNext == CallPatternFieldMatching \/ CallCalculatePatternConfidence

SpecPattern == PatternInit /\ [][PatternNext]_vars

(***************************************************************************)
(* SpecExtract: one call of _extract_nearby_text, one step per search      *)
(* region of its loop.                                                     *)
(***************************************************************************)

\* A text of n characters.
TextOfLength(n) == SubSeq("Employer identification number or tax reference no", 1, n)

\* What OCR may answer for a region.
OcrAnswers == {
    OcrError,
    OcrText(""),
    OcrText(" ab\n"),
    OcrText("ab!?"),
    OcrText("Name:"),
    OcrText(" First Name \n"),
    OcrText(TextOfLength(49)),
    OcrText(TextOfLength(50)) }

\* Bounding boxes of a field: inside the frame, at its left edge, at its
\* top edge, and reaching its right edge.
FieldBoxes == {
    [x |-> 300, y |-> 100, w |-> 200, h |-> 30],
    [x |-> 0,   y |-> 100, w |-> 200, h |-> 30],
    [x |-> 300, y |-> 0,   w |-> 200, h |-> 30],
    [x |-> 800, y |-> 100, w |-> 200, h |-> 30] }

ExtractInit ==
    /\ DedupUnused
    /\ MatchUnused
    /\ FillUnused
    /\ PatternUnused
    /\ DetectUnused
    /\ ClassifyUnused
    /\ ex_pc = "loop"
    /\ ex_box \in FieldBoxes
    /\ ex_ocr \in [1..3 -> OcrAnswers]
    /\ ex_i = 1
    /\ ex_calls = <<>>
    /\ ex_result = NoneStr

ExRegions == SearchRegions(ex_box.x, ex_box.y, ex_box.w, ex_box.h)

\* if region.size == 0: continue  (lines 114-115)
ExtractSkipRegion ==
    /\ ex_pc = "loop"
    /\ ex_i <= Len(ExRegions)
    /\ ~TryRegion(ExRegions[ex_i], ex_ocr[ex_i]).called
    /\ ex_i' = ex_i + 1
    /\ UNCHANGED <<ex_pc, ex_box, ex_ocr, ex_calls, ex_result, dedupVars, matchVars,
                   fillVars, patVars, detectVars, classifyVars>>

\* Lines 117-124: OCR is called on the region; a usable text is returned,
\* anything else (an exception included) goes on with the next region.
ExtractReadRegion ==
    /\ ex_pc = "loop"
    /\ ex_i <= Len(ExRegions)
    /\ LET try == TryRegion(ExRegions[ex_i], ex_ocr[ex_i])
       IN  /\ try.called
           /\ ex_calls' = Append(ex_calls, ExRegions[ex_i].name)
           /\ IF try.returned
              THEN /\ ex_result' = Str(try.text)
                   /\ ex_pc' = "returned"
                   /\ ex_i' = ex_i
              ELSE /\ ex_i' = ex_i + 1
                   /\ UNCHANGED <<ex_pc, ex_result>>
    /\ UNCHANGED <<ex_box, ex_ocr, dedupVars, matchVars, fillVars, patVars,
                   detectVars, classifyVars>>

\* return None  (line 126)
ExtractReturnNone ==
    /\ ex_pc = "loop"
    /\ ex_i > Len(ExRegions)
    /\ ex_result' = NoneStr
    /\ ex_pc' = "returned"
    /\ UNCHANGED <<ex_box, ex_ocr, ex_i, ex_calls, dedupVars, matchVars, fillVars,
                   patVars, detectVars, classifyVars>>

ExtractNext == ExtractSkipRegion \/ ExtractReadRegion \/ ExtractReturnNone

SpecExtract == ExtractInit /\ [][ExtractNext]_vars

(***************************************************************************)
(* SpecDetect: one call of detect_form_fields on a ScreenAnalyzer that may *)
(* hold a captured frame and a field list of an earlier call, followed by  *)
(* match_fields on what it returned, no client being configured.           *)
(***************************************************************************)

\* Contours of a frame: the outline of a text box with "First Name:" above
\* it, OCR failing to its left; an outline 20 wide; the outline of a button with no text
\* around it; an outline of area 300; an outline of ratio exactly 1.5.
ContourChoices == {
    [x |-> 300, y |-> 100, w |-> 200, h |-> 30, area |-> 5800,
     ocr |-> <<OcrError, OcrText(" First Name:\n"), OcrText("")>>],
    [x |-> 50,  y |-> 300, w |-> 20,  h |-> 30, area |-> 500,
     ocr |-> <<OcrText("Name"), OcrText(""), OcrText("")>>],
    [x |-> 300, y |-> 200, w |-> 160, h |-> 40, area |-> 6000,
     ocr |-> <<OcrText(""), OcrError, OcrText("")>>],
    [x |-> 50,  y |-> 400, w |-> 100, h |-> 30, area |-> 300,
     ocr |-> <<OcrText("Name"), OcrText(""), OcrText("")>>],
    [x |-> 600, y |-> 400, w |-> 60,  h |-> 40, area |-> 2000,
     ocr |-> <<OcrText("Name"), OcrText(""), OcrText("")>>] }

Token(text, conf, left, top, width, height) ==
    [text |-> text, conf |-> conf, left |-> left, top |-> top,
     width |-> width, height |-> height]

OcrData(tokens) == [raises |-> FALSE, tokens |-> tokens]

\* What image_to_data may answer for a frame.
DataChoices == {
    OcrError,
    OcrData(<<>>),
    OcrData(<<Token("", -1, 0, 0, 1000, 600),
              Token("Upload Resume", 95, 320, 210, 120, 20)>>),
    OcrData(<<Token("Upload", 96, 320, 210, 60, 20),
              Token("resume", 30, 390, 210, 60, 20)>>),
    OcrData(<<Token("First", 91, 100, 105, 40, 20),
              Token("Name:", 90, 150, 105, 50, 20)>>),
    OcrData(<<Token("CV", 100, 5, 5, 30, 20)>>) }

Frames ==
    {[contours |-> c, data |-> d] :
        c \in UNION {[1..k -> ContourChoices] : k \in 0..MaxContours},
        d \in DataChoices}

\* A frame captured earlier, and the field list of an earlier detection.
EarlierFrame == [contours |-> <<>>, data |-> OcrData(<<>>)]

EarlierFields ==
    <<FormField(1, 40, 40, 300, 30, "input", Str("Company"), 700000)>>

DetectInit ==
    /\ DedupUnused
    /\ MatchUnused
    /\ FillUnused
    /\ PatternUnused
    /\ ExtractUnused
    /\ ClassifyUnused
    /\ dt_pc = "start"
    /\ \E frame \in Frames :
          \/ frame_arg = frame /\ screenshot \in {None, EarlierFrame}
          \/ frame_arg = None  /\ screenshot = frame
          \/ frame_arg = None  /\ screenshot = None
    /\ form_fields \in {<<>>, EarlierFields}
    /\ dt_result = <<>>
    /\ detected_on = None
    /\ an_calls = 0

\* Lines 42-43: raise ValueError.
DetectFormFieldsRaises ==
    /\ dt_pc = "start"
    /\ NoFrameAvailable(frame_arg, screenshot)
    /\ dt_pc' = "raised"
    /\ UNCHANGED <<frame_arg, screenshot, form_fields, dt_result, detected_on,
                   an_calls, dedupVars, matchVars, fillVars, patVars, extractVars,
                   classifyVars>>

\* Lines 45-80.
DetectFormFieldsReturns ==
    /\ dt_pc = "start"
    /\ ~NoFrameAvailable(frame_arg, screenshot)
    /\ form_fields' = DetectFormFields(FrameUsed(frame_arg, screenshot))
    /\ dt_result' = form_fields'
    /\ detected_on' = FrameUsed(frame_arg, screenshot)
    /\ an_calls' = an_calls + 1
    /\ dt_pc' = "returned"
    /\ UNCHANGED <<frame_arg, screenshot, dedupVars, matchVars, fillVars, patVars,
                   extractVars, classifyVars>>

\* match_fields(fields) on the fields returned (field_matcher.py 96-113).
MatchDetectedFields ==
    /\ dt_pc = "returned"
    /\ mf_pc = "unused"
    /\ detected_fields' = dt_result
    /\ outcomes' = MatchFieldsOutcomes(dt_result, use_ai, anthropic,
                                       [i \in 1..Len(dt_result) |-> ServiceError],
                                       Len(dt_result))
    /\ matches' = MatchesOf(outcomes', Len(outcomes'))
    /\ mf_pc' = "returned"
    /\ UNCHANGED <<anthropic, caller, use_ai, mf_i, mappings, detectVars,
       classifyVars, dedupVars,
                   fillVars, patVars, extractVars>>

DetectNext ==
    \/ DetectFormFieldsRaises
    \/ DetectFormFieldsReturns
    \/ MatchDetectedFields

SpecDetect == DetectInit /\ [][DetectNext]_vars

(***************************************************************************)
(* SpecClassify: one call of _classify_field_type.                         *)
(***************************************************************************)

\* Widths and heights of a bounding rectangle, around every threshold of
\* the classification and of the filter before it.
ClassifiedWidths == {21, 100, 101, 150, 199, 200, 400, 401, 500, 799}

ClassifiedHeights == {16, 20, 21, 30, 39, 40, 49, 50, 80, 81, 99}

ClassifyInit ==
    /\ DedupUnused
    /\ MatchUnused
    /\ FillUnused
    /\ PatternUnused
    /\ ExtractUnused
    /\ DetectUnused
    /\ cl_pc = "start"
    /\ cl_w \in ClassifiedWidths
    /\ cl_h \in ClassifiedHeights
    /\ cl_result = ""

\* field_type = self._classify_field_type(x, y, w, h, gray)  (line 64)
CallClassifyFieldType ==
    /\ cl_pc = "start"
    /\ cl_result' = ClassifyFieldType(cl_w, cl_h)
    /\ cl_pc' = "returned"
    /\ UNCHANGED <<cl_w, cl_h, dedupVars, matchVars, fillVars, patVars, extractVars,
                   detectVars>>

ClassifyNext == CallClassifyFieldType

SpecClassify == ClassifyInit /\ [][ClassifyNext]_vars

(***************************************************************************)
(* SpecAnalyzer: a ScreenAnalyzer from its construction on, under calls of *)
(* capture_screen and detect_form_fields in any order.                     *)
(***************************************************************************)

\* What the screen shows at a capture, or a caller passes as the frame: an
\* empty page, a page with the "First Name" text box, a page with the
\* "Upload Resume" control, a page with both.
AnalyzerFrames == {
    EarlierFrame,
    [contours |-> <<CHOOSE c \in ContourChoices : c.x = 300 /\ c.y = 100>>,
     data |-> OcrData(<<>>)],
    [contours |-> <<>>,
     data |-> OcrData(<<Token("Upload Resume", 95, 320, 210, 120, 20)>>)],
    [contours |-> <<CHOOSE c \in ContourChoices : c.x = 300 /\ c.y = 100>>,
     data |-> OcrData(<<Token("Upload Resume", 95, 320, 210, 120, 20)>>)] }

\* __init__ (lines 23-25)
AnalyzerInit ==
    /\ DedupUnused
    /\ MatchUnused
    /\ FillUnused
    /\ PatternUnused
    /\ ExtractUnused
    /\ ClassifyUnused
    /\ dt_pc = "constructed"
    /\ frame_arg = None
    /\ screenshot = None
    /\ form_fields = <<>>
    /\ dt_result = <<>>
    /\ detected_on = None
    /\ an_calls = 0

\* capture_screen (lines 27-35)
CaptureScreen ==
    /\ an_calls < MaxCalls
    /\ \E frame \in AnalyzerFrames : screenshot' = frame
    /\ dt_pc' = "captured"
    /\ an_calls' = an_calls + 1
    /\ UNCHANGED <<frame_arg, form_fields, dt_result, detected_on, dedupVars,
                   matchVars, fillVars, patVars, extractVars, classifyVars>>

\* detect_form_fields(frame) or detect_form_fields(), returning (lines 37-80)
DetectOnAnalyzer ==
    /\ an_calls < MaxCalls
    /\ \E argument \in AnalyzerFrames \cup {None} :
          /\ ~NoFrameAvailable(argument, screenshot)
          /\ frame_arg' = argument
          /\ form_fields' = DetectFormFields(FrameUsed(argument, screenshot))
          /\ detected_on' = FrameUsed(argument, screenshot)
    /\ dt_result' = form_fields'
    /\ dt_pc' = "returned"
    /\ an_calls' = an_calls + 1
    /\ UNCHANGED <<screenshot, dedupVars, matchVars, fillVars, patVars,
                   extractVars, classifyVars>>

\* detect_form_fields() with nothing captured: raise ValueError (line 43)
DetectOnAnalyzerRaises ==
    /\ an_calls < MaxCalls
    /\ NoFrameAvailable(None, screenshot)
    /\ frame_arg' = None
    /\ dt_pc' = "raised"
    /\ an_calls' = an_calls + 1
    /\ UNCHANGED <<screenshot, form_fields, dt_result, detected_on, dedupVars,
                   matchVars, fillVars, patVars, extractVars, classifyVars>>

AnalyzerNext ==
    \/ CaptureScreen
    \/ DetectOnAnalyzer
    \/ DetectOnAnalyzerRaises

SpecAnalyzer == AnalyzerInit /\ [][AnalyzerNext]_vars

(***************************************************************************)
(* Properties of the Deduplicator (SpecDedup).                             *)
(*                                                                         *)
(* The overlap ratio of the statements is computed here from the pixels    *)
(* the two boxes cover, not from the code's expression.                    *)
(***************************************************************************)
PixelsOf(f) == (f.x .. (f.x + f.width - 1)) \X (f.y .. (f.y + f.height - 1))

\* intersection area / min of the two box areas  >  0.5
RatioAboveHalf(a, b) ==
    2 * Cardinality(PixelsOf(a) \cap PixelsOf(b))
        > Min(Cardinality(PixelsOf(a)), Cardinality(PixelsOf(b)))

Kept(c) == \E j \in 1..Len(dd_result) : dd_result[j].id = c.id

\* Neither candidate of the pair overlaps a third candidate by more than 0.5.
PairAlone(i, j) ==
    \A k \in (1..Len(candidates)) \ {i, j} :
        /\ ~RatioAboveHalf(candidates[k], candidates[i])
        /\ ~RatioAboveHalf(candidates[k], candidates[j])

\* C1, as stated: of any two candidates with overlap ratio > 0.5 exactly the
\* lower-confidence one is dropped and the other is kept, and two candidates
\* with overlap ratio <= 0.5 are both kept.  (Nothing is required here of
\* two overlapping candidates of equal confidence.)
C1_PairwiseAsStated ==
    dd_pc = "called" =>
        \A i, j \in 1..Len(candidates) :
            LET a == candidates[i]
                b == candidates[j]
            IN  i # j =>
                    IF RatioAboveHalf(a, b)
                    THEN a.confidence < b.confidence => ~Kept(a) /\ Kept(b)
                    ELSE Kept(a) /\ Kept(b)

\* C1, amended: of any two candidates neither of which overlaps a third
\* candidate by more than 0.5, exactly the lower-confidence one (the later
\* one in the input when the confidences are equal) is dropped when their
\* overlap ratio is > 0.5, and both are kept when it is <= 0.5.
C1_PairwiseAmongIsolatedPairs ==
    dd_pc = "called" =>
        \A i, j \in 1..Len(candidates) :
            LET a == candidates[i]
                b == candidates[j]
            IN  /\ i # j
                /\ PairAlone(i, j)
                /\ \/ a.confidence < b.confidence
                   \/ a.confidence = b.confidence /\ j < i
                => IF RatioAboveHalf(a, b)
                   THEN ~Kept(a) /\ Kept(b)
                   ELSE Kept(a) /\ Kept(b)

\* A call on three candidates: two of different confidence that overlap by
\* more than 0.5, and a third that neither overlaps by more than 0.5.
C1_Witness ==
    /\ dd_pc = "called"
    /\ Len(candidates) = 3
    /\ \E i, j \in 1..3 :
          /\ i # j
          /\ PairAlone(i, j)
          /\ candidates[i].confidence < candidates[j].confidence
          /\ RatioAboveHalf(candidates[i], candidates[j])
          /\ ~Kept(candidates[i])
          /\ Kept(candidates[j])

\* C7: the list _remove_duplicates returns holds no two distinct regions
\* whose overlap ratio exceeds 0.5.
C7_NoOverlapInOutput ==
    dd_pc \in {"called", "recalled"} =>
        \A i, j \in 1..Len(dd_result) :
            i # j => ~RatioAboveHalf(dd_result[i], dd_result[j])

\* A call on three candidates that dropped one and kept two.
C7_Witness ==
    /\ dd_pc = "called"
    /\ Len(candidates) = 3
    /\ Len(dd_result) = 2

\* C8: the second pass, run on the first pass's result, returns the same
\* regions in the same order and leaves that result as it was.
C8_Idempotent ==
    [][dd_pc = "called" /\ dd_pc' = "recalled"
          => dd_result2' = dd_result /\ dd_result' = dd_result]_vars

\* Both passes are done, the first one dropped a candidate and kept two of
\* equal confidence.
C8_Witness ==
    /\ dd_pc = "recalled"
    /\ Len(candidates) = 3
    /\ Len(dd_result2) = 2
    /\ dd_result2[1].confidence = dd_result2[2].confidence

(***************************************************************************)
(* Properties of the Field Matcher (SpecMatch).                            *)
(*                                                                         *)
(* outcomes[k] is what the loop body of match_fields did for the k-th      *)
(* detected field; matches is the list match_fields returns.               *)
(***************************************************************************)

\* The fixed data-key vocabulary of the statements.
DataKeyVocabulary ==
    {"first_name", "last_name", "full_name", "email", "phone", "address",
     "city", "state", "zip", "country", "university", "degree",
     "graduation_year", "gpa", "visa_status", "salary_expectation",
     "start_date", "linkedin", "website", "resume", "cover_letter",
     "transcript"}

Processed == 1..Len(outcomes)

\* C2, as stated: every FieldMatch returned by match_fields, whichever
\* strategy produced it and whatever the service answered, has a data_key of
\* the fixed data-key vocabulary.
C2_DataKeyInVocabulary ==
    \A k \in 1..Len(matches) : matches[k].data_key \in DataKeyVocabulary

\* C3, as stated: every FieldMatch returned by match_fields has a confidence
\* in [0,1], whatever the service answered.
C3_ConfidenceInUnitInterval ==
    \A k \in 1..Len(matches) :
        matches[k].confidence >= 0 /\ matches[k].confidence <= 1000000

\* C5, as stated: the AI-assisted matcher never yields a FieldMatch whose
\* data_key is "unknown", whatever the response body.
C5_NeverYieldsUnknown ==
    \A k \in Processed :
        outcomes[k].by = "ai" => outcomes[k].match.data_key # "unknown"

\* The AI-assisted matcher was asked about the k-th field and gave no match.
Declined(k) ==
    /\ outcomes[k].asked
    /\ AiFieldMatching(detected_fields[k].label[1], detected_fields[k].field_type,
                       outcomes[k].response).value = None

\* The parts of C6 that do not depend on when the service is consulted: one
\* outcome per field and one request at most, the Pattern Matcher's outcome
\* whenever the AI-assisted matcher is not asked, fails or gives no match,
\* one strategy and at most one FieldMatch per field, and no exception.
C6_FallbackAndNoException ==
    /\ mf_pc # "raised"
    /\ Len(outcomes) <= Len(detected_fields)
    /\ Len(matches) <= Len(outcomes)
    /\ \A k \in Processed :
          /\ ~outcomes[k].raised
          /\ outcomes[k].by \in {"ai", "pattern"}
          /\ outcomes[k].by = "ai" =>
                outcomes[k].asked /\ ~outcomes[k].response.raises
                                  /\ outcomes[k].match # None
          /\ (~outcomes[k].asked \/ outcomes[k].response.raises \/ Declined(k)) =>
                /\ outcomes[k].by = "pattern"
                /\ outcomes[k].match =
                       PatternMatchFor(detected_fields[k])

C9_MappingsAreTheConfidentMatches ==
    (caller = "get_suggested_mappings" /\ mf_pc = "returned") =>
        /\ \A label \in DOMAIN mappings :
              \E k \in 1..Len(matches) :
                  /\ matches[k].field_name = label
                  /\ matches[k].data_key = mappings[label]
                  /\ matches[k].confidence > 500000
        /\ \A k \in 1..Len(matches) :
              matches[k].confidence > 500000 =>
                  matches[k].field_name \in DOMAIN mappings

\* C9 witness: a match of confidence exactly 0.5 whose label is left out and
\* a match of confidence 0.51 whose label is mapped to its key.
C9_Witness ==
    /\ caller = "get_suggested_mappings" /\ mf_pc = "returned"
    /\ \E k \in 1..Len(matches) :
          /\ matches[k].confidence = 500000
          /\ matches[k].field_name \notin DOMAIN mappings
    /\ \E k \in 1..Len(matches) :
          /\ matches[k].confidence = 510000
          /\ matches[k].field_name \in DOMAIN mappings
          /\ mappings[matches[k].field_name] = matches[k].data_key

\* No registered pattern matches the label of a field.
NoRegisteredPatternMatches ==
    [choice \in FieldChoices |->
        \A k \in 1..Len(field_patterns) :
            \A j \in 1..Len(field_patterns[k].patterns) :
                ~ReSearch(field_patterns[k].patterns[j],
                          Lower(OrEmpty(choice.label)))]

UnmatchedLabel(field) ==
    NoRegisteredPatternMatches[[label |-> field.label,
                                field_type |-> field.field_type]]

\* The label of a file-upload field names a kind of file.
NamesAFile(field) ==
    /\ field.field_type = "file"
    /\ \E k \in 1..Len(file_keywords) :
          \E keyword \in file_keywords[k].keywords :
              Contains(Lower(OrEmpty(field.label)), keyword)

\* The Pattern Matcher resolves "Email Address" to email, confidence >= 0.6,
\* under the pattern \bemail\b.
EmailAddressResolved(k) ==
    detected_fields[k].label = Str("Email Address") =>
        /\ outcomes[k].match # None
        /\ outcomes[k].match.data_key = "email"
        /\ outcomes[k].match.confidence >= 600000
        /\ outcomes[k].match.reasoning = "Pattern match: \\bemail\\b"

ByPattern == {k \in Processed : outcomes[k].by = "pattern"}

\* C10, as stated: the Pattern Matcher resolves "Email Address" to email with
\* confidence >= 0.6 under \bemail\b, and any label that no registered
\* pattern matches to no match.
C10_UnmatchedLabelGivesNoMatch ==
    \A k \in ByPattern :
        /\ EmailAddressResolved(k)
        /\ UnmatchedLabel(detected_fields[k]) => outcomes[k].match = None

\* C10, amended: as stated, except that a file-upload field whose label
\* contains a file keyword resolves to that file's key although no
\* registered pattern matches the label.
C10_UnmatchedLabelGivesNoMatchUnlessFile ==
    \A k \in ByPattern :
        /\ EmailAddressResolved(k)
        /\ (UnmatchedLabel(detected_fields[k]) /\ ~NamesAFile(detected_fields[k]))
               => outcomes[k].match = None

\* C10 witness: the Pattern Matcher resolved "Email Address" to email for
\* one field and found nothing for the label "xyz123" of another.
C10_Witness ==
    /\ \E k \in ByPattern :
          /\ detected_fields[k].label = Str("Email Address")
          /\ outcomes[k].match # None
          /\ outcomes[k].match.data_key = "email"
    /\ \E k \in ByPattern :
          /\ detected_fields[k].label = Str("xyz123")
          /\ outcomes[k].match = None

(***************************************************************************)
(* Properties of fill_screen_form (SpecFill).                              *)
(*                                                                         *)
(* outcomes[k].match is the match derived from the label of the k-th       *)
(* detected field, None if it has none.                                    *)
(***************************************************************************)
OwnMatch(k) == outcomes[k].match

\* The detected field whose centre a click went to.
FieldClicked(click) ==
    CHOOSE k \in 1..Len(detected_fields) :
        /\ click.x = detected_fields[k].x + detected_fields[k].width \div 2
        /\ click.y = detected_fields[k].y + detected_fields[k].height \div 2

PreviewWasShown == fs_pc = "filling" \/ preview # <<>>

\* C4, as stated: in fill_screen_form every field shown in the preview or
\* filled is shown or filled with the data key matched from its own label,
\* and a field without a match is reported as unmatched and is not filled.
C4_EachFieldWithItsOwnMatch ==
    /\ \A n \in 1..Len(preview) :
          preview[n].data_key =
              IF OwnMatch(preview[n].number) = None THEN NoneStr
              ELSE Str(OwnMatch(preview[n].number).data_key)
    /\ PreviewWasShown =>
          \A k \in 1..Len(detected_fields) :
              OwnMatch(k) = None =>
                  \E n \in 1..Len(preview) :
                      preview[n].number = k /\ preview[n].data_key = NoneStr
    /\ \A n \in 1..Len(clicks) :
          /\ OwnMatch(FieldClicked(clicks[n])) # None
          /\ clicks[n].data_key = OwnMatch(FieldClicked(clicks[n])).data_key

(***************************************************************************)
(* Properties of the Pattern Matcher (SpecPattern).                        *)
(***************************************************************************)
ConfidenceReturned ==
    pm_pc = "returned" /\ pm_call = "_calculate_pattern_confidence"

MatchingReturned ==
    pm_pc = "returned" /\ pm_call = "_pattern_field_matching"

\* C11: the confidence the Pattern Matcher computes lies in [0,1] for every
\* pattern of the table and every label, the empty label and a label of 500
\* characters included; so does the confidence of every match it returns.
C11_PatternConfidenceInUnitInterval ==
    /\ ConfidenceReturned => pm_result >= 0 /\ pm_result <= 1000000
    /\ (MatchingReturned /\ pm_result # None) =>
           pm_result.confidence >= 0 /\ pm_result.confidence <= 1000000

\* C11 witness: a confidence was computed for a label of 500 characters that
\* the pattern matches and that contains the pattern's text.
C11_Witness ==
    /\ ConfidenceReturned
    /\ Len(pm_label) = 500
    /\ ReSearch(PatternAt(pm_pattern), pm_label)
    /\ pm_result > 600000

\* The positions of the table whose pattern matches the lower-cased label.
MatchingPositions(label) ==
    {pos \in PatternPositions : ReSearch(PatternAt(pos), Lower(label))}

ConfidenceAt(pos, label) == CalculatePatternConfidence(PatternAt(pos), Lower(label))

\* Table order: by key, and by pattern within a key.
ComesBefore(p, q) == p[1] < q[1] \/ (p[1] = q[1] /\ p[2] < q[2])

\* The match the table gives for a label at a position.
MatchAtPosition(pos, label) ==
    FieldMatch(label, field_patterns[pos[1]].data_key, ConfidenceAt(pos, label),
               "Pattern match: " \o PatternAt(pos))

\* C17: for a field kind other than file, the Pattern Matcher returns the
\* match of maximal confidence over all (key, pattern) pairs whose pattern
\* matches the lower-cased label, and of the pairs that tie on the maximum
\* the one that comes first in table order; with no such pair it returns
\* no match.
C17_MaximumAndFirstOfTies ==
    (MatchingReturned /\ pm_type # "file") =>
        LET hits == MatchingPositions(pm_label)
        IN  IF hits = {} THEN pm_result = None
            ELSE \E pos \in hits :
                    /\ \A q \in hits :
                          /\ ConfidenceAt(q, pm_label) <= ConfidenceAt(pos, pm_label)
                          /\ ConfidenceAt(q, pm_label) = ConfidenceAt(pos, pm_label)
                                => ~ComesBefore(q, pos)
                    /\ pm_result = MatchAtPosition(pos, pm_label)

\* C17 witness: a label on which patterns of two keys tie on the maximum
\* was resolved to the key that comes first in the table.
C17_Witness ==
    /\ MatchingReturned /\ pm_type # "file" /\ pm_result # None
    /\ \E q \in MatchingPositions(pm_label) :
          /\ field_patterns[q[1]].data_key # pm_result.data_key
          /\ ConfidenceAt(q, pm_label) = pm_result.confidence

\* The file keys in the order of the keyword lists, and the first of them
\* that has a keyword in the lower-cased label (0 if none has).
FileKeys == <<"resume", "cover_letter", "transcript">>

FirstFileKeyHit(label) ==
    LET hit(k) == \E keyword \in file_keywords[k].keywords :
                      Contains(Lower(label), keyword)
    IN  IF \E k \in 1..3 : hit(k)
        THEN CHOOSE k \in 1..3 : hit(k) /\ \A g \in 1..(k - 1) : ~hit(g)
        ELSE 0

\* C18: for a file-upload field whose lower-cased label contains a file
\* keyword the Pattern Matcher returns the file key of the first keyword
\* list hit with confidence exactly 0.8, whatever the pattern table scores
\* for the label; for any other field kind it never returns a file key.
C18_FileKeywordsBypassTheTable ==
    MatchingReturned =>
        /\ (pm_type = "file" /\ FirstFileKeyHit(pm_label) # 0) =>
              /\ pm_result # None
              /\ pm_result.data_key = FileKeys[FirstFileKeyHit(pm_label)]
              /\ pm_result.confidence = 800000
        /\ (pm_type # "file" /\ pm_result # None) =>
              /\ pm_result.data_key \notin Range(FileKeys)
              /\ pm_result = PatternFieldMatching(pm_label, "input")

\* C18 witness: a file-upload field was resolved to resume with confidence
\* 0.8 although the table scores its label higher for another key.
C18_Witness ==
    /\ MatchingReturned /\ pm_type = "file"
    /\ pm_result # None /\ pm_result.data_key = "resume"
    /\ pm_result.confidence = 800000
    /\ PatternFieldMatching(pm_label, "input") # None
    /\ PatternFieldMatching(pm_label, "input").confidence > 800000

\* The literal text of a pattern: the anchors \b taken off its ends, \s*
\* read as one space, and the escaping backslashes removed.
LiteralText(pattern) ==
    LET front == IF StartsWithAt(pattern, 1, "\\b")
                 THEN SubSeq(pattern, 3, Len(pattern)) ELSE pattern
        core  == IF Len(front) >= 2 /\ StartsWithAt(front, Len(front) - 1, "\\b")
                 THEN SubSeq(front, 1, Len(front) - 2) ELSE front
    IN  Replace(Replace(core, "\\s*", " "), "\\", "")

\* 0.6, plus 0.3, plus 0.1, minus 0.2 as the statement says, clamped to [0,1].
StatedConfidence(pattern, label) ==
    LET sum == 600000
               + (IF Contains(label, LiteralText(pattern)) THEN 300000 ELSE 0)
               + (IF Len(LiteralText(pattern)) < 10 THEN 100000 ELSE 0)
               - (IF pattern \in {"\\bname\\b", "\\baddress\\b"} THEN 200000 ELSE 0)
    IN  Max(0, Min(1000000, sum))

\* C19, as stated: for every pattern of the table that matches the label,
\* the confidence computed is 0.6, plus 0.3 if the pattern's literal text
\* occurs verbatim in the label, plus 0.1 if that text is shorter than 10
\* characters, minus 0.2 for the bare name and address patterns, clamped to
\* [0,1] (up to the rounding of the float sum, one millionth here).
C19_ConfidenceIsTheStatedSum ==
    (ConfidenceReturned /\ ReSearch(PatternAt(pm_pattern), pm_label)) =>
        LET stated == StatedConfidence(PatternAt(pm_pattern), pm_label)
        IN  pm_result - stated <= 1 /\ stated - pm_result <= 1

(***************************************************************************)
(* More properties of the Deduplicator (SpecDedup).                        *)
(***************************************************************************)

\* Descending-confidence order, candidates of equal confidence in the order
\* of the input.
TakenBefore(d, c) ==
    d.confidence > c.confidence \/ (d.confidence = c.confidence /\ d.id < c.id)

\* C16: a candidate is kept if and only if its overlap ratio with every
\* candidate kept before it in descending-confidence order is <= 0.5; so
\* every dropped candidate overlaps by more than 0.5 a kept candidate of
\* confidence greater than or equal to its own.
C16_GreedySuppression ==
    dd_pc \in {"called", "recalled"} =>
        \A i \in 1..Len(candidates) :
            LET c == candidates[i]
                KeptBefore == {j \in 1..Len(candidates) :
                                  Kept(candidates[j]) /\ TakenBefore(candidates[j], c)}
            IN  /\ Kept(c) <=> \A j \in KeptBefore : ~RatioAboveHalf(c, candidates[j])
                /\ ~Kept(c) =>
                      \E j \in 1..Len(candidates) :
                          /\ Kept(candidates[j])
                          /\ candidates[j].confidence >= c.confidence
                          /\ RatioAboveHalf(c, candidates[j])

\* C16 witness: a candidate was dropped for one of higher confidence that
\* came after it in the input, and a candidate overlapping a dropped one of
\* higher confidence by more than 0.5 was kept.
C16_Witness ==
    /\ dd_pc = "called"
    /\ \E i, j \in 1..Len(candidates) :
          /\ i < j
          /\ ~Kept(candidates[i]) /\ Kept(candidates[j])
          /\ candidates[j].confidence > candidates[i].confidence
          /\ RatioAboveHalf(candidates[i], candidates[j])
    /\ \E i, j \in 1..Len(candidates) :
          /\ Kept(candidates[i]) /\ ~Kept(candidates[j])
          /\ candidates[j].confidence > candidates[i].confidence
          /\ RatioAboveHalf(candidates[i], candidates[j])

(***************************************************************************)
(* Properties of the Label Extractor (SpecExtract).                        *)
(***************************************************************************)
RegionNames == <<"left", "above", "right">>

\* The position of a search region in the order left, above, right.
RegionIndex(name) == CHOOSE i \in 1..3 : RegionNames[i] = name

\* OCR can be asked about the i-th region and gives a cleaned text of 3 to
\* 49 characters for it.
AcceptableAt(i) ==
    /\ ExRegions[i].size > 0
    /\ ~ex_ocr[i].raises
    /\ Len(CleanText(ex_ocr[i].text)) \in 3..49

\* C20: OCR is invoked on the sub-regions in the order left, above, right;
\* the result is the cleaned text of the first sub-region whose cleaned text
\* has 3 to 49 characters (none if there is no such sub-region), and OCR is
\* not called on any sub-region after that one.
C20_FirstAcceptableRegionWins ==
    /\ \A m, n \in 1..Len(ex_calls) :
          m < n => RegionIndex(ex_calls[m]) < RegionIndex(ex_calls[n])
    /\ \A n \in 1..Len(ex_calls) :
          \A i \in 1..(RegionIndex(ex_calls[n]) - 1) : ~AcceptableAt(i)
    /\ ex_pc = "returned" =>
          IF \E i \in 1..3 : AcceptableAt(i)
          THEN LET first == CHOOSE i \in 1..3 :
                                AcceptableAt(i) /\ \A g \in 1..(i - 1) : ~AcceptableAt(g)
               IN  /\ ex_result = Str(CleanText(ex_ocr[first].text))
                   /\ ex_calls # <<>>
                   /\ ex_calls[Len(ex_calls)] = RegionNames[first]
          ELSE ex_result = NoneStr

\* C20 witness: the left region gave nothing usable, the text above the
\* field was returned, and OCR was not called on the right region although
\* it would have given an acceptable text too.
C20_Witness ==
    /\ ex_pc = "returned"
    /\ ex_calls = <<"left", "above">>
    /\ ex_result = Str("First Name")
    /\ AcceptableAt(3)

(***************************************************************************)
(* Properties of detection (SpecDetect).                                   *)
(***************************************************************************)
\* The frame the call of detect_form_fields works on.
TheFrame == FrameUsed(frame_arg, screenshot)

\* What the two passes of detection find in a frame, before deduplication.
FromGeometry(frame) == GeometryFields(frame.contours, Len(frame.contours))

FromKeywords(frame) == DetectButtonsAndUploads(frame.data)

\* A frame yielding one single-line region labelled "First Name" and one
\* keyword-derived file region labelled "Upload Resume" that share no area.
FirstNameAndUploadResume(frame) ==
    /\ Len(FromGeometry(frame)) = 1
    /\ FromGeometry(frame)[1].label = Str("First Name")
    /\ FromGeometry(frame)[1].field_type = "input"
    /\ Len(FromKeywords(frame)) = 1
    /\ FromKeywords(frame)[1].label = Str("Upload Resume")
    /\ FromKeywords(frame)[1].field_type = "file"
    /\ OverlapArea(FromGeometry(frame)[1], FromKeywords(frame)[1]) = 0

\* C12: with no client configured, for a frame that yields one single-line
\* region labelled "First Name" and one keyword-derived file region labelled
\* "Upload Resume" not overlapping it, detection, deduplication and matching
\* give exactly two matches: one with key first_name made by the pattern
\* table, one with key resume made by the file-keyword path with confidence
\* 0.8.
C12_FirstNameAndResume ==
    (mf_pc = "returned" /\ dt_pc = "returned" /\ ~anthropic
        /\ FirstNameAndUploadResume(TheFrame))
    => /\ Len(matches) = 2
       /\ \E i, j \in 1..2 :
            /\ i # j
            /\ matches[i].data_key = "first_name"
            /\ matches[i].field_name = "First Name"
            /\ StartsWithAt(matches[i].reasoning, 1, "Pattern match: ")
            /\ matches[j].data_key = "resume"
            /\ matches[j].field_name = "Upload Resume"
            /\ matches[j].confidence = 800000
            /\ matches[j].reasoning = "File upload field for resume"

\* C12, its case: such a frame, with a second outline that the filter
\* rejects, has been detected and matched.
C12_Witness ==
    /\ mf_pc = "returned"
    /\ dt_pc = "returned"
    /\ ~anthropic
    /\ FirstNameAndUploadResume(TheFrame)
    /\ Len(TheFrame.contours) = 2
    /\ Len(matches) = 2

\* The filter as the specification states it: width in (20, 800), height in
\* (15, 100), contour area above 300, width/height in (1.5, 20).
StatedFilter(contour) ==
    /\ contour.w \in 21..799
    /\ contour.h \in 16..99
    /\ contour.area > 300
    /\ 2 * contour.w > 3 * contour.h
    /\ contour.w < 20 * contour.h

NoContourPasses(frame) ==
    \A k \in 1..Len(frame.contours) : ~StatedFilter(frame.contours[k])

\* OCR of the whole frame fails, or reports no token of confidence above 30
\* whose lower-cased text contains an upload keyword.
NoKeywordHit(frame) ==
    \/ frame.data.raises
    \/ \A k \in 1..Len(frame.data.tokens) :
          \/ frame.data.tokens[k].conf <= 30
          \/ \A keyword \in upload_keywords :
                ~Contains(Lower(frame.data.tokens[k].text), keyword)

\* The call of detect_form_fields is over and a frame was there for it.
DetectedOnAFrame == dt_pc # "start" /\ TheFrame # None

\* C13, as stated: for every frame in which no contour passes the
\* size/area/aspect-ratio filter, detect_form_fields returns an empty sequence
\* and raises no error.
C13_NoContourGivesNothing ==
    (DetectedOnAFrame /\ NoContourPasses(TheFrame))
    => (dt_pc = "returned" /\ dt_result = <<>>)

\* C13, amended: for every frame detect_form_fields raises no error, and it
\* returns an empty sequence when no contour passes the filter and the
\* keyword pass has no hit either.
C13_NoContourAndNoKeywordGivesNothing ==
    DetectedOnAFrame
    => /\ dt_pc = "returned"
       /\ (NoContourPasses(TheFrame) /\ NoKeywordHit(TheFrame)) => dt_result = <<>>

\* C13, its case: a frame with two outlines that the filter rejects and OCR
\* tokens none of which is a keyword hit has been detected on, with nothing
\* returned.
C13_Witness ==
    /\ dt_pc = "returned"
    /\ Len(TheFrame.contours) = 2
    /\ NoContourPasses(TheFrame)
    /\ ~TheFrame.data.raises
    /\ TheFrame.data.tokens # <<>>
    /\ NoKeywordHit(TheFrame)
    /\ dt_result = <<>>

\* An OCR call made for the frame fails: the one on the whole frame, or one
\* on a search region of an outline.
SomeOcrFails(frame) ==
    \/ frame.data.raises
    \/ \E k \in 1..Len(frame.contours) : \E r \in 1..3 :
          frame.contours[k].ocr[r].raises

\* C14: detect_form_fields raises its input error exactly when there is
\* neither a frame argument nor a captured frame; it then returns no regions
\* and the stored field list stays as it was; with a frame it returns, also
\* when OCR calls fail.
C14_RaisesExactlyWithoutAFrame ==
    /\ [](dt_pc # "start"
            => /\ dt_pc = "raised" <=> (frame_arg = None /\ screenshot = None)
               /\ dt_pc = "raised" => dt_result = <<>>
               /\ (TheFrame # None /\ SomeOcrFails(TheFrame)) => dt_pc = "returned")
    /\ [][dt_pc' = "raised" => form_fields' = form_fields]_vars

\* C14, its case: the call has raised on an analyzer that holds the field
\* list of an earlier detection.
C14_Witness ==
    /\ dt_pc = "raised"
    /\ frame_arg = None
    /\ screenshot = None
    /\ form_fields = EarlierFields

\* C15: every region detect_form_fields returns, found from an outline or
\* from a keyword, has width > 0, height > 0 and a confidence in [0,1], so
\* the smaller area of any two of them, by which the overlap is divided, is
\* not zero.
C15_RegionsAreWellFormed ==
    dt_pc = "returned"
    => /\ \A k \in 1..Len(dt_result) :
            /\ dt_result[k].width > 0
            /\ dt_result[k].height > 0
            /\ dt_result[k].confidence >= 0
            /\ dt_result[k].confidence <= 1000000
       /\ \A k, l \in 1..Len(dt_result) : MinArea(dt_result[k], dt_result[l]) > 0

\* C15, its case: a region found from an outline and a region found from a
\* keyword read with confidence 100 are returned together.
C15_Witness ==
    /\ dt_pc = "returned"
    /\ \E k, l \in 1..Len(dt_result) :
          /\ dt_result[k].field_type = "file"
          /\ dt_result[k].confidence = 1000000
          /\ dt_result[l].field_type = "input"
          /\ dt_result[l].confidence = 700000
          /\ PassesFilter([w |-> dt_result[l].width, h |-> dt_result[l].height,
                           area |-> 301])

\* Label extraction for the k-th outline of a frame, and its search regions.
ExtractionOf(frame, k) ==
    ExtractNearbyText(frame.contours[k].x, frame.contours[k].y, frame.contours[k].w,
                      frame.contours[k].h, frame.contours[k].ocr)

RegionsOf(frame, k) ==
    SearchRegions(frame.contours[k].x, frame.contours[k].y, frame.contours[k].w,
                  frame.contours[k].h)

\* OCR was called on the r-th search region of the k-th outline.
CalledOn(frame, k, r) ==
    \E n \in 1..Len(ExtractionOf(frame, k).calls) :
        ExtractionOf(frame, k).calls[n] = RegionsOf(frame, k)[r].name

\* OCR fails on the r-th search region, or its cleaned text is not of
\* length 3..49.
FailsOrUnacceptable(frame, k, r) ==
    \/ frame.contours[k].ocr[r].raises
    \/ Len(CleanText(frame.contours[k].ocr[r].text)) \notin 3..49

\* The field made of the k-th outline is among those a list holds.
MadeOf(frame, k, field) ==
    /\ field.x = frame.contours[k].x
    /\ field.y = frame.contours[k].y
    /\ field.width = frame.contours[k].w
    /\ field.height = frame.contours[k].h
    /\ field.field_type # "file"

\* C21: for every outline that passes the filter, OCR is called at most
\* once on each search region and at most three times; after a failed call
\* the next search region is read; when all three fail or give unacceptable
\* text the label is absent, and the region is made all the same: it is
\* returned unless deduplication drops it for a returned region.
C21_OcrFailureMovesOn ==
    dt_pc = "returned"
    => \A k \in 1..Len(TheFrame.contours) :
         StatedFilter(TheFrame.contours[k])
         => LET calls == ExtractionOf(TheFrame, k).calls
            IN  /\ Len(calls) <= 3
                /\ \A m, n \in 1..Len(calls) : calls[m] = calls[n] => m = n
                /\ \A r \in 1..2 :
                      (CalledOn(TheFrame, k, r) /\ TheFrame.contours[k].ocr[r].raises
                         /\ RegionsOf(TheFrame, k)[r + 1].size > 0)
                      => CalledOn(TheFrame, k, r + 1)
                /\ (\A r \in 1..3 : FailsOrUnacceptable(TheFrame, k, r))
                   => /\ ExtractionOf(TheFrame, k).label = NoneStr
                      /\ \E n \in 1..Len(FromGeometry(TheFrame)) :
                            /\ MadeOf(TheFrame, k, FromGeometry(TheFrame)[n])
                            /\ FromGeometry(TheFrame)[n].label = NoneStr
                      /\ \/ \E n \in 1..Len(dt_result) :
                               /\ MadeOf(TheFrame, k, dt_result[n])
                               /\ dt_result[n].label = NoneStr
                         \/ \E n \in 1..Len(dt_result) :
                               /\ dt_result[n].field_type = "file"
                               /\ \E g \in 1..Len(FromGeometry(TheFrame)) :
                                     /\ MadeOf(TheFrame, k, FromGeometry(TheFrame)[g])
                                     /\ OverlapsTooMuch(FromGeometry(TheFrame)[g],
                                                        dt_result[n])

\* C21, its case: an outline whose first OCR call failed got its label from
\* the next search region, and an outline with no acceptable text around it
\* is returned without a label.
C21_Witness ==
    /\ dt_pc = "returned"
    /\ \E k \in 1..Len(TheFrame.contours) :
          /\ StatedFilter(TheFrame.contours[k])
          /\ TheFrame.contours[k].ocr[1].raises
          /\ ExtractionOf(TheFrame, k).calls = <<"left", "above">>
          /\ ExtractionOf(TheFrame, k).label = Str("First Name")
    /\ \E k \in 1..Len(TheFrame.contours) :
          /\ StatedFilter(TheFrame.contours[k])
          /\ \A r \in 1..3 : FailsOrUnacceptable(TheFrame, k, r)
          /\ \E n \in 1..Len(dt_result) :
                MadeOf(TheFrame, k, dt_result[n]) /\ dt_result[n].label = NoneStr

\* C22, as stated: after _remove_duplicates(S) has returned, S holds the
\* same regions in the same order as before the call.
C22_ArgumentLeftAsItWas ==
    dd_pc = "called" => dd_list = candidates

\* C23, as stated: a call of detect_form_fields that returns leaves the
\* stored screenshot and the stored field list of the analyzer unchanged.
C23_DetectionLeavesTheAnalyzerAsItWas ==
    [][dt_pc' = "returned" /\ dt_pc = "start"
         => (screenshot' = screenshot /\ form_fields' = form_fields)]_vars

\* The k-th token of a frame's OCR data is a keyword hit: confidence above
\* 30 and an upload keyword in its lower-cased text.
KeywordHit(frame, k) ==
    /\ frame.data.tokens[k].conf > 30
    /\ \E keyword \in upload_keywords :
          Contains(Lower(frame.data.tokens[k].text), keyword)

HitsOf(frame) ==
    IF frame.data.raises THEN {}
    ELSE {k \in 1..Len(frame.data.tokens) : KeywordHit(frame, k)}

\* A region is the token's box padded by 20 on the left and on the right and
\* by 10 above and below.
PaddedAround(region, token) ==
    /\ region.field_type = "file"
    /\ region.x = token.left - 20
    /\ region.x + region.width = token.left + token.width + 20
    /\ region.y = token.top - 10
    /\ region.y + region.height = token.top + token.height + 10

\* C24, as stated: the keyword pass makes one file region for every keyword
\* hit, the token's box padded by 20 px on each horizontal side and 10 px on
\* each vertical side, wherever the token is, and none for any other token.
C24_OnePaddedRegionPerHit ==
    (dt_pc = "returned" /\ ~TheFrame.data.raises)
    => /\ Len(FromKeywords(TheFrame)) = Cardinality(HitsOf(TheFrame))
       /\ \A k \in HitsOf(TheFrame) :
             \E n \in 1..Len(FromKeywords(TheFrame)) :
                 PaddedAround(FromKeywords(TheFrame)[n], TheFrame.data.tokens[k])

(***************************************************************************)
(* Properties of the classification (SpecClassify).                        *)
(***************************************************************************)
\* C25: the kind depends on width and height alone: height > 80 gives
\* textarea (multi-line); otherwise width > 400 and height < 50 gives input
\* (single-line); otherwise 100 < width < 200 and 20 < height < 40 gives
\* select; otherwise input; file is never given.
C25_KindByThresholds ==
    cl_pc = "returned"
    => /\ cl_h > 80 => cl_result = "textarea"
       /\ (cl_h <= 80 /\ cl_w > 400 /\ cl_h < 50) => cl_result = "input"
       /\ (cl_h <= 80 /\ ~(cl_w > 400 /\ cl_h < 50)
             /\ cl_w \in 101..199 /\ cl_h \in 21..39) => cl_result = "select"
       /\ (cl_h <= 80 /\ ~(cl_w > 400 /\ cl_h < 50)
             /\ ~(cl_w \in 101..199 /\ cl_h \in 21..39)) => cl_result = "input"
       /\ cl_result # "file"

\* C25, its case: a rectangle of height exactly 80, which is not yet a
\* textarea, was classified.
C25_Witness ==
    /\ cl_pc = "returned"
    /\ cl_h = 80
    /\ cl_w = 150
    /\ cl_result = "input"

\* C26: in fill_screen_form, confirmation being required, a click or a
\* keystroke is issued only once the user has entered 1 at the preview;
\* when the user entered 2, or no field was detected, the call returns False
\* with no field filled.
C26_NothingFilledBeforeConfirmation ==
    /\ (clicks # <<>> \/ filled_count > 0)
          => (preview # <<>> /\ user_choice = Str("1"))
    /\ (fs_pc = "returned" /\ (user_choice = Str("2") \/ detected_fields = <<>>))
          => (fs_result = FALSE /\ clicks = <<>> /\ filled_count = 0)

\* C26, its case: the user has cancelled a preview that showed a field with
\* a match and data to fill it with, and the call has returned.
C26_Witness ==
    /\ fs_pc = "returned"
    /\ user_choice = Str("2")
    /\ clicks = <<>>
    /\ fs_result = FALSE
    /\ \E n \in 1..Len(preview) : preview[n].data_key = Str("email")

(***************************************************************************)
(* Properties of the analyzer's stored state (SpecAnalyzer).               *)
(***************************************************************************)
\* C27, as stated: after any calls of capture_screen and detect_form_fields
\* on one analyzer, the stored field list is the result of the latest
\* detection that returned, and that detection ran on the screenshot now
\* stored.
C27_StoredFieldsBelongToStoredScreenshot ==
    /\ form_fields = IF detected_on = None THEN <<>>
                     ELSE DetectFormFields(detected_on)
    /\ detected_on # None => detected_on = screenshot

(***************************************************************************)
(* Further properties of the Deduplicator (SpecDedup).                     *)
(***************************************************************************)
\* The first of the candidates of highest confidence, in input order.
EarliestMaximum ==
    CHOOSE i \in 1..Len(candidates) :
        /\ \A j \in 1..Len(candidates) :
              candidates[j].confidence <= candidates[i].confidence
        /\ \A j \in 1..(i - 1) : candidates[j].confidence < candidates[i].confidence

\* For a non-empty input the output is non-empty, ordered by non-increasing
\* confidence, made of regions of the input, each at most once, and begins
\* with the earliest candidate of highest confidence.
OutputOfNonEmptyInput ==
    /\ dd_result # <<>>
    /\ \A m, n \in 1..Len(dd_result) :
          m < n => dd_result[m].confidence >= dd_result[n].confidence
    /\ \A m \in 1..Len(dd_result) :
          \E i \in 1..Len(candidates) : dd_result[m] = candidates[i]
    /\ \A m, n \in 1..Len(dd_result) : dd_result[m].id = dd_result[n].id => m = n
    /\ dd_result[1] = candidates[EarliestMaximum]

\* Two candidates of equal confidence that overlap by more than 0.5, i the
\* earlier in the input.
EqualAndOverlapping(i, j) ==
    /\ i < j
    /\ candidates[i].confidence = candidates[j].confidence
    /\ RatioAboveHalf(candidates[i], candidates[j])

\* C28, as stated: for every non-empty input the output is non-empty,
\* ordered by non-increasing confidence, made of regions of the input, each
\* at most once, begins with the earliest candidate of highest confidence,
\* and of two equal-confidence overlapping candidates the earlier survives.
C28_EarlierOfEqualSurvives ==
    (dd_pc = "called" /\ candidates # <<>>)
    => /\ OutputOfNonEmptyInput
       /\ \A i, j \in 1..Len(candidates) :
             EqualAndOverlapping(i, j) => Kept(candidates[i])

\* C28, amended: the same, but of two equal-confidence overlapping
\* candidates not both survive, and the earlier survives unless it overlaps
\* by more than 0.5 a kept candidate taken before it.
C28_EarlierOfEqualNotDroppedForLater ==
    (dd_pc = "called" /\ candidates # <<>>)
    => /\ OutputOfNonEmptyInput
       /\ \A i, j \in 1..Len(candidates) :
             EqualAndOverlapping(i, j)
             => /\ ~(Kept(candidates[i]) /\ Kept(candidates[j]))
                /\ \/ Kept(candidates[i])
                   \/ \E d \in 1..Len(candidates) :
                         /\ Kept(candidates[d])
                         /\ TakenBefore(candidates[d], candidates[i])
                         /\ RatioAboveHalf(candidates[i], candidates[d])

\* C28, its case: of two equal-confidence overlapping candidates the
\* earlier was dropped for a candidate of higher confidence that came last in
\* the input and is the first of the output, and the later survived.
C28_Witness ==
    /\ dd_pc = "called"
    /\ Len(candidates) = 3
    /\ EqualAndOverlapping(1, 2)
    /\ ~Kept(candidates[1])
    /\ Kept(candidates[2])
    /\ dd_result[1] = candidates[3]

(***************************************************************************)
(* Further properties of the Pattern Matcher (SpecPattern).                *)
(***************************************************************************)
\* The match returned was made under one of the two generic patterns.
UnderGenericPattern ==
    pm_result.reasoning \in {"Pattern match: \\bname\\b",
                             "Pattern match: \\baddress\\b"}

\* C29, as stated: every match the Pattern Matcher returns has a confidence
\* of at least 0.6, and of at least 0.8 when it was made under a generic
\* pattern; so it passes the confidence > 0.5 filter of the suggested
\* mappings.
C29_ReturnedMatchAtLeastSixTenths ==
    (MatchingReturned /\ pm_result # None)
    => /\ pm_result.confidence >= 600000
       /\ UnderGenericPattern => pm_result.confidence >= 800000
       /\ pm_result.confidence > 500000

\* C29, amended: at least 0.6, and at least 0.7999999999999998 (the float
\* value of 0.6 + 0.3 + 0.1 - 0.2) under a generic pattern.
C29_ReturnedMatchAtLeastSixTenthsAsFloats ==
    (MatchingReturned /\ pm_result # None)
    => /\ pm_result.confidence >= 600000
       /\ UnderGenericPattern => pm_result.confidence >= 799999
       /\ pm_result.confidence > 500000

\* C29, its case: a match was returned under the generic pattern \bname\b.
C29_Witness ==
    /\ MatchingReturned
    /\ pm_result # None
    /\ pm_label = "Name"
    /\ UnderGenericPattern
    /\ pm_result.confidence = 799999

(***************************************************************************)
(* Further properties of the Field Matcher (SpecMatch).                    *)
(***************************************************************************)
\* The fields processed so far whose label is absent or empty.
Unlabelled ==
    {k \in Processed : detected_fields[k].label \in {NoneStr, Str("")}}

\* C30: a field whose label is absent or empty yields no match, whatever
\* its kind and whether or not a client is configured and enabled, and the
\* service is not asked about it; so no match carries an empty field name.
C30_UnlabelledFieldGivesNoMatch ==
    /\ \A k \in Unlabelled : ~outcomes[k].asked /\ outcomes[k].match = None
    /\ \A m \in 1..Len(matches) : matches[m].field_name # ""

\* C30, its case: with a client configured and enabled, a file field
\* without a label and a field with an empty label were processed, and
\* match_fields returned.
C30_Witness ==
    /\ mf_pc = "returned"
    /\ anthropic
    /\ use_ai
    /\ \E k \in Unlabelled :
          detected_fields[k].label = NoneStr /\ detected_fields[k].field_type = "file"
    /\ \E k \in Unlabelled : detected_fields[k].label = Str("")
    /\ matches = <<>>

====
